---- MODULE Spec2Model ----
(***************************************************************************)
(* State-machine model of the MunicipiosPBA ingestion core:                *)
(*   - the LLM extractor's retry loop (single_shot/openai_extract.py,      *)
(*     ingest/llm_utils.py),                                               *)
(*   - the orchestrators that persist the extracted rows                   *)
(*     (pipeline/runner.py, single_shot/pipeline.py, ingest/run_ingest.py, *)
(*     pipeline/ingest_xlsx.py) against a relational store,                *)
(*   - the deterministic parsers of the report's sections                  *)
(*     (pipeline/parsers), line by line.                                   *)
(***************************************************************************)
EXTENDS Integers, Sequences, FiniteSets, TLC

VARIABLES
    \* ---- LLM extractor (extract_pdf_single_shot / call_structured_output)
    ex_pc,            \* "idle" | "try" | "chat" | "returned" | "raised"
    max_retries,      \* parameter max_retries
    retry_sleep_sec,  \* parameter retry_sleep_sec (in abstract time units)
    attempt,          \* loop variable of `for attempt in range(max_retries + 1)`
    use_responses,    \* local flag use_responses
    has_responses,    \* hasattr(client, "responses")
    last_error,       \* local last_error (a kind of exception, or NoError)
    calls,            \* transport calls made so far, in order
    sleeps,           \* arguments of the time.sleep calls made so far, in order
    ex_result,        \* the payload returned to the caller, or NoResult
    ex_raised         \* the errors raised to the caller, in order

ex_vars == <<ex_pc, max_retries, retry_sleep_sec, attempt, use_responses,
             has_responses, last_error, calls, sleeps, ex_result, ex_raised>>

VARIABLES
    \* ---- the orchestrator being run and its arguments
    orch,             \* which orchestrator runs (one of Orchestrators)
    pc,               \* the step the orchestrator is at: [op, t]
    doc_id,           \* argument doc_id / id_documentoCargado ("" when empty)
    \* ---- the relational store
    doc_status,       \* BD_DocumentosCargados: status column, per document
    doc_error,        \* BD_DocumentosCargados: error / summary column, per document
    bd_jurisdiccion,  \* rows of bd_jurisdiccion, in insertion order
    bd_programas,     \* rows of bd_programas, in insertion order
    bd_metas,         \* rows of bd_metas, in insertion order
    metas_staging,    \* rows of the staging table for unresolved goals
    flat,             \* the five flat tables: table name -> rows
    next_id,          \* next surrogate identifier the store assigns
    \* ---- locals of the running orchestrator
    parsed,           \* what the parsers / the extractor produced
    juri_rows,        \* local juri_rows
    juri_map,         \* local juri_map: jurisdiction key -> ID_Jurisdiccion
    prog_rows,        \* local prog_rows
    program_mapping,  \* local program lookup (prog_by_key, prog_by_name / mapping)
    metas_rows,       \* local metas_rows (resolved goals)
    metas_unresolved, \* local unresolved goals, where the code keeps them
    warnings,         \* local warnings
    exc,              \* exception caught by run_document's handler
    result,           \* value returned to the caller
    raised,           \* exception propagated to the caller
    \* ---- history
    was_processing,   \* the run set the document's status to 'Procesando'
    written,          \* rows this run wrote: table name -> rows
    \* ---- around the run
    fk_action,        \* what the store's foreign keys do on a parent's delete
    other,            \* a second run_document on another document: its position and locals
    unique_keys,      \* the store's tables have the unique constraints upserts name
    \* ---- the operations with a dry_run argument
    dry_run,          \* the dry_run argument of the call
    agent             \* locals of the agent's operation: what it read from the store

VARIABLES
    \* ---- a deterministic parser
    scan              \* the parser run: its text, the line it is at, its locals and outputs

VARIABLES
    \* ---- a helper function called on its own
    helper            \* the call: the function, its arguments, its locals and outputs

store_vars == <<doc_status, doc_error, bd_jurisdiccion, bd_programas, bd_metas,
                metas_staging, flat, next_id>>
local_vars == <<parsed, juri_rows, juri_map, prog_rows, program_mapping,
                metas_rows, metas_unresolved, warnings, exc, result, raised>>
env_vars == <<fk_action, other, unique_keys>>
run_vars == <<orch, pc, doc_id, store_vars, local_vars, was_processing, written,
              env_vars, dry_run, agent>>
or_vars == <<run_vars, scan, helper>>

vars == <<ex_vars, or_vars>>

-----------------------------------------------------------------------------
(* Bounds of the model *)

\* largest retry budget explored
MaxRetriesBound == 2

\* values of retry_sleep_sec explored
RetrySleepValues == {1, 3}

-----------------------------------------------------------------------------
(* LLM extractor *)

NoError == "none"
NoResult == [call |-> 0, schema_ok |-> FALSE, validated |-> FALSE]

\* What the native structured-output call (client.responses.create and the
\* json.loads of its text) can do.
NativeOutcomes ==
    {"ok_valid", "ok_schema_invalid", "bad_json",
     "type_error_response_format", "type_error_other", "network"}

\* What the plain chat call (client.chat.completions.create, the empty check,
\* json.loads and json_validate) can do.
ChatOutcomes ==
    {"ok_valid", "ok_schema_invalid", "empty", "bad_json", "network"}

\* The exception a native call raises inside the attempt (NoError: json.loads
\* succeeded and the function returns).
NativeException(outcome) ==
    CASE outcome = "bad_json"                   -> "JSONDecodeError"
      [] outcome = "type_error_response_format" -> "TypeError_response_format"
      [] outcome = "type_error_other"           -> "TypeError"
      [] outcome = "network"                    -> "APIConnectionError"
      [] OTHER                                  -> NoError

\* The exception a chat call raises inside the attempt: transport error, the
\* RuntimeError of the empty check, json.loads, json_validate.
ChatException(outcome) ==
    CASE outcome = "bad_json"          -> "JSONDecodeError"
      [] outcome = "network"           -> "APIConnectionError"
      [] outcome = "empty"             -> "RuntimeError_empty"
      [] outcome = "ok_schema_invalid" -> "ValidationError"
      [] OTHER                         -> NoError

\* `except TypeError as exc: if "response_format" in str(exc)`
IsDowngradeSignal(e) == e = "TypeError_response_format"

\* The flag at the top of an iteration: it is initialised once, before the loop.
UseResponsesResetEachAttempt(flag, client_has) == client_has
UseResponsesAtAttempt(flag, client_has) == flag

\* `time.sleep(retry_sleep_sec * (attempt + 1))`
SleepDelayFlat(rs, a) == rs
SleepDelay(rs, a) == rs * (a + 1)

\* `if attempt < max_retries:` in the handler
RetryAllowedOneShort(a, mr) == a + 1 < mr
RetryAllowed(a, mr) == a < mr

\* The native path returns json.loads(text) as it is; no json_validate runs.
NativePayload(idx, outcome) ==
    [call |-> idx, schema_ok |-> (outcome = "ok_valid"), validated |-> FALSE]

\* The chat path returns after json_validate(instance=parsed, schema=...).
ChatPayload(idx, outcome) ==
    [call |-> idx, schema_ok |-> (outcome = "ok_valid"), validated |-> TRUE]

\* The chat attempt returns only when nothing raised: text non-empty, json.loads
\* and json_validate passed.
ChatAccepts(outcome) == ChatException(outcome) = NoError

\* The chat prompt: `fallback_user` ends with the schema text.
ChatPromptHasSchema == TRUE

CallRecord(api, outcome) ==
    [api |-> api, attempt |-> attempt, outcome |-> outcome,
     schema_in_prompt |-> (api = "chat" /\ ChatPromptHasSchema)]

\* `except Exception as exc:` of the attempt loop
ExHandler(e) ==
    /\ last_error' = e
    /\ IF RetryAllowed(attempt, max_retries)
       THEN /\ sleeps' = Append(sleeps, SleepDelay(retry_sleep_sec, attempt))
            /\ attempt' = attempt + 1
            /\ ex_pc' = "try"
            /\ UNCHANGED ex_raised
       ELSE /\ ex_raised' = Append(ex_raised,
                  [type |-> "RuntimeError", wrapped |-> TRUE, cause |-> e,
                   cause_call |-> Len(calls')])
            /\ ex_pc' = "raised"
            /\ UNCHANGED <<sleeps, attempt>>

ExInit ==
    /\ ex_pc = "try"
    /\ max_retries \in 0..MaxRetriesBound
    /\ retry_sleep_sec \in RetrySleepValues
    /\ attempt = 0
    /\ has_responses \in BOOLEAN
    /\ use_responses = has_responses
    /\ last_error = NoError
    /\ calls = <<>>
    /\ sleeps = <<>>
    /\ ex_result = NoResult
    /\ ex_raised = <<>>

\* `if use_responses:` ... client.responses.create(...) ... return json.loads(text)
NativeCall ==
    /\ ex_pc = "try"
    /\ UseResponsesAtAttempt(use_responses, has_responses)
    /\ \E o \in NativeOutcomes :
        /\ calls' = Append(calls, CallRecord("native", o))
        /\ IF NativeException(o) = NoError
           THEN /\ ex_result' = NativePayload(Len(calls'), o)
                /\ ex_pc' = "returned"
                /\ UNCHANGED <<attempt, use_responses, last_error, sleeps, ex_raised>>
           ELSE IF IsDowngradeSignal(NativeException(o))
           THEN /\ use_responses' = FALSE
                /\ ex_pc' = "chat"
                /\ UNCHANGED <<attempt, last_error, sleeps, ex_result, ex_raised>>
           ELSE /\ ExHandler(NativeException(o))
                /\ UNCHANGED <<use_responses, ex_result>>
    /\ UNCHANGED <<max_retries, retry_sleep_sec, has_responses, or_vars>>

\* client.chat.completions.create(...) ... json_validate ... return parsed
ChatCall ==
    /\ \/ ex_pc = "chat"
       \/ ex_pc = "try" /\ ~UseResponsesAtAttempt(use_responses, has_responses)
    /\ \E o \in ChatOutcomes :
        /\ calls' = Append(calls, CallRecord("chat", o))
        /\ IF ChatAccepts(o)
           THEN /\ ex_result' = ChatPayload(Len(calls'), o)
                /\ ex_pc' = "returned"
                /\ UNCHANGED <<attempt, last_error, sleeps, ex_raised>>
           ELSE /\ ExHandler(ChatException(o))
                /\ UNCHANGED ex_result
    /\ UNCHANGED <<max_retries, retry_sleep_sec, has_responses, use_responses, or_vars>>

ExNext == NativeCall \/ ChatCall

\* The extractor is not running (the orchestrators call it as one step).
ExIdle ==
    /\ ex_pc = "idle"
    /\ max_retries = 0
    /\ retry_sleep_sec = 0
    /\ attempt = 0
    /\ has_responses = FALSE
    /\ use_responses = FALSE
    /\ last_error = NoError
    /\ calls = <<>>
    /\ sleeps = <<>>
    /\ ex_result = NoResult
    /\ ex_raised = <<>>

-----------------------------------------------------------------------------
(* The store and the values the orchestrators handle *)

\* Strings stand for Python strings, "" for None / the empty string;
\* identifiers are positive integers, 0 for None.
NoId == 0

\* Documents of BD_DocumentosCargados. d2 is another, already ingested document;
\* d3 has no storage path; d4 is not a SITECO document.
StoredDocs == {"d1", "d2", "d3", "d4"}
DocRecord(d) == [storage_path |-> (d # "d3"), siteco |-> (d # "d4")]

\* An identifier no stored document has: an unknown doc_id argument, and the
\* identifier the store gives a document created by the run.
NewDoc == "d0"
Docs == StoredDocs \cup {NewDoc}

\* The status column before the run: 'absent' stands for no row.
InitialStatus ==
    [d \in Docs |-> IF d = NewDoc THEN "absent"
                    ELSE IF d = "d2" THEN "Procesado" ELSE "Pendiente"]

\* doc_id arguments explored: run_document gets empty, unknown and stored
\* ids, the ingested d2 among them; the single-shot runs none or the ingested
\* document; main takes none.
DocIdArgsOf(o) ==
    CASE o = "run_document" -> {"", NewDoc, "d1", "d2", "d3", "d4"}
      [] o = "cleanup_orphan_records" -> {""}
      [] o = "reset_document_data" -> {"d1", "d2"}
      [] o = "ingest_main" -> {""}
      [] o = "ingest_rafam_xlsx" -> {"", "d1", "d2"}
      [] OTHER -> {"", "d2"}

FlatTables ==
    {"bd_recursos", "bd_gastos", "bd_movimientosTesoreria", "bd_cuentas",
     "bd_situacionpatrimonial"}

-----------------------------------------------------------------------------
(***************************************************************************)
(* Text.  A str of the parsers is a string over ASCII; a text is the       *)
(* sequence of its lines (what text_all.splitlines() yields).  The         *)
(* operators below compute what the str methods and the regular            *)
(* expressions of pipeline/parsers compute, character by character.  A     *)
(* value an operator uses more than once is bound as a parameter of a      *)
(* local operator.                                                         *)
(***************************************************************************)
Digits == {"0", "1", "2", "3", "4", "5", "6", "7", "8", "9"}
UpperCase == "ABCDEFGHIJKLMNOPQRSTUVWXYZ"
LowerCase == "abcdefghijklmnopqrstuvwxyz"
WhiteSpace == {" ", "\t"}

\* s[i-1] in Python, "" outside the string
Ch(s, i) == IF i >= 1 /\ i <= Len(s) THEN SubSeq(s, i, i) ELSE ""
\* s[a-1:b] in Python
Slice(s, a, b) == IF a > b \/ a > Len(s) THEN "" ELSE SubSeq(s, a, IF b > Len(s) THEN Len(s) ELSE b)
From(s, a) == Slice(s, a, Len(s))
IsDigit(c) == c \in Digits
IsSpace(c) == c \in WhiteSpace
IsLetter(c) == \E i \in 1..26 : c = Ch(UpperCase, i) \/ c = Ch(LowerCase, i)
\* \w of the regular expressions
IsWord(c) == IsDigit(c) \/ IsLetter(c) \/ c = "_"
\* \b at the position before s[i]
Boundary(s, i) == IsWord(Ch(s, i - 1)) # IsWord(Ch(s, i))

Min(S) == CHOOSE x \in S : \A y \in S : x <= y
Max(S) == CHOOSE x \in S : \A y \in S : x >= y

\* str.startswith
StartsWith(s, p) == Len(p) <= Len(s) /\ SubSeq(s, 1, Len(p)) = p
\* p == s[i-1:i-1+len(p)]
At(s, i, p) == i >= 1 /\ i + Len(p) - 1 <= Len(s) /\ SubSeq(s, i, i + Len(p) - 1) = p
\* str.find, counted from 1; 0 when p does not occur
Least0(hits) == IF hits = {} THEN 0 ELSE Min(hits)
Most0(hits) == IF hits = {} THEN 0 ELSE Max(hits)
Find(s, p) == Least0({i \in 1..(Len(s) + 1) : At(s, i, p)})
\* str.rfind, counted from 1; 0 when p does not occur
RFind(s, p) == Most0({i \in 1..(Len(s) + 1) : At(s, i, p)})
\* p in s
Contains(s, p) == Find(s, p) # 0

LowerCh(c) ==
    LET Nth(at) == IF at = 0 THEN c ELSE Ch(LowerCase, at)
    IN  Nth(Find(UpperCase, c))
\* str.lower
RECURSIVE Lower(_)
Lower(s) ==
    IF s = "" THEN ""
    ELSE IF Len(s) = 1 THEN LowerCh(s)
    ELSE Lower(Slice(s, 1, Len(s) \div 2)) \o Lower(From(s, Len(s) \div 2 + 1))

\* str.split(): the maximal runs of non-whitespace characters
RECURSIVE Split(_)
Split(s) ==
    LET Word(stop) ==
            IF stop = 0 THEN <<s>>
            ELSE IF stop = 1 THEN Split(From(s, 2))
            ELSE <<Slice(s, 1, stop - 1)>> \o Split(From(s, stop))
    IN  IF s = "" THEN <<>> ELSE Word(Least0({i \in 1..Len(s) : IsSpace(Ch(s, i))}))
\* " ".join(words)
RECURSIVE Join(_)
Join(words) ==
    IF words = <<>> THEN ""
    ELSE IF Len(words) = 1 THEN words[1]
    ELSE words[1] \o " " \o Join(Tail(words))
\* str.strip
Strip(s) ==
    LET Kept(keep) == IF keep = {} THEN "" ELSE Slice(s, Min(keep), Max(keep))
    IN  Kept({i \in 1..Len(s) : ~IsSpace(Ch(s, i))})
\* str.replace(c, r) for a one-character c
RECURSIVE Replace(_, _, _)
Replace(s, c, r) ==
    IF Len(s) <= 1 THEN (IF s = c THEN r ELSE s)
    ELSE Replace(Slice(s, 1, Len(s) \div 2), c, r) \o Replace(From(s, Len(s) \div 2 + 1), c, r)

\* common.normalize_name: trim and collapse runs of whitespace
normalize_name(text) == Join(Split(text))
\* common.normalize_key: on ASCII text the NFKD decomposition and the ascii
\* encoding change nothing, and what is left is the lower-casing
normalize_key(text) == Lower(normalize_name(text))

\* the number of digits at s[i-1:], at most n of them
RECURSIVE DigitRun(_, _, _)
DigitRun(s, i, n) ==
    IF n = 0 \/ ~IsDigit(Ch(s, i)) THEN 0 ELSE 1 + DigitRun(s, i + 1, n - 1)
\* the number of groups (?:\.\d{3}) at s[i-1:]
RECURSIVE GroupRun(_, _)
GroupRun(s, i) ==
    IF Ch(s, i) = "." /\ DigitRun(s, i + 1, 3) = 3 THEN 1 + GroupRun(s, i + 4) ELSE 0

(***************************************************************************)
(* _AMOUNT_RE = -?\d{1,3}(?:\.\d{3})*(?:,\d{2}) matched at s[i-1:]: the    *)
(* position after the match, 0 when there is none.  The quantifiers are    *)
(* greedy and give back: most digits first, then most groups.              *)
(***************************************************************************)
\* (?:,\d{2}) after at most g groups that start at p
RECURSIVE AmountTail(_, _, _)
AmountTail(s, p, g) ==
    IF g < 0 THEN 0
    ELSE IF Ch(s, p + 4 * g) = "," /\ DigitRun(s, p + 4 * g + 1, 2) = 2 THEN p + 4 * g + 3
    ELSE AmountTail(s, p, g - 1)
\* the rest of the expression after at most d digits that start at j
RECURSIVE AmountFrom(_, _, _)
AmountFrom(s, j, d) ==
    LET Or(end) == IF end # 0 THEN end ELSE AmountFrom(s, j, d - 1)
    IN  IF d < 1 THEN 0 ELSE Or(AmountTail(s, j + d, GroupRun(s, j + d)))
AmountEnd(s, i) ==
    LET After(j) == AmountFrom(s, j, DigitRun(s, j, 3))
    IN  After(IF Ch(s, i) = "-" THEN i + 1 ELSE i)

\* the spans <<from, to>> of the non-overlapping matches, left to right
RECURSIVE AmountSpans(_, _)
AmountSpans(s, i) ==
    LET Match(end) ==
            IF end = 0 THEN AmountSpans(s, i + 1)
            ELSE <<<<i, end - 1>>>> \o AmountSpans(s, end)
    IN  IF i > Len(s) THEN <<>> ELSE Match(AmountEnd(s, i))

\* the substrings of text at spans
Cut(text, spans) == [k \in 1..Len(spans) |-> Slice(text, spans[k][1], spans[k][2])]
\* Every token taken for an amount.
find_amounts_any_token(text) == Split(text)
\* _AMOUNT_RE.findall(text), common.find_amounts
find_amounts(text) == Cut(text, AmountSpans(text, 1))

\* _AMOUNT_RE.sub("", text)
RECURSIVE CutSpans(_, _, _)
CutSpans(s, i, spans) ==
    IF spans = <<>> THEN From(s, i)
    ELSE Slice(s, i, spans[1][1] - 1) \o CutSpans(s, spans[1][2] + 1, Tail(spans))
AmountSub(text) == CutSpans(text, 1, AmountSpans(text, 1))

(***************************************************************************)
(* Floats.  A float is kept exactly, as an integer mantissa and a number   *)
(* of decimals with no trailing zero: 1000.0 is Float(1000, 0), 850.5 is   *)
(* Float(8505, 1).                                                         *)
(***************************************************************************)
RECURSIVE Float(_, _)
Float(m, d) ==
    IF d > 0 /\ m % 10 = 0 THEN Float(m \div 10, d - 1) ELSE [m |-> m, d |-> d]
\* what a call that raises ValueError yields
ValueError == [raises |-> "ValueError"]

DigitValue(c) == CHOOSE n \in 0..9 : Ch("0123456789", n + 1) = c
RECURSIVE Natural(_)
Natural(s) == IF s = "" THEN 0 ELSE 10 * Natural(Slice(s, 1, Len(s) - 1)) + DigitValue(Ch(s, Len(s)))
AllDigits(s) == \A i \in 1..Len(s) : IsDigit(Ch(s, i))

\* float(s) for the literals [+-]?digits[.digits]; any other str raises
float(s) ==
    LET Number(negative, digits, decimals) ==
            IF digits = "" \/ ~AllDigits(digits) THEN ValueError
            ELSE Float(IF negative THEN 0 - Natural(digits) ELSE Natural(digits), decimals)
        Dotted(negative, body, dot) ==
            IF dot = 0 THEN Number(negative, body, 0)
            ELSE Number(negative, Slice(body, 1, dot - 1) \o From(body, dot + 1),
                        Len(body) - dot)
        Unsigned(negative, body) == Dotted(negative, body, Find(body, "."))
        Signed(t) ==
            IF Ch(t, 1) \in {"-", "+"} THEN Unsigned(Ch(t, 1) = "-", From(t, 2))
            ELSE Unsigned(FALSE, t)
    IN  Signed(Strip(s))

\* common.parse_amount_ar / recursos.parse_amount_ar
parse_amount_ar(value) ==
    LET Parse(s) ==
            IF s = "" THEN ValueError
            ELSE float(Replace(Replace(s, ".", ""), ",", "."))
    IN  Parse(Strip(value))

\* str.strip(chars)
StripChars(s, chars) ==
    LET Kept(keep) == IF keep = {} THEN "" ELSE Slice(s, Min(keep), Max(keep))
    IN  Kept({i \in 1..Len(s) : Ch(s, i) \notin chars})
EndsWith(s, p) == Len(p) <= Len(s) /\ From(s, Len(s) - Len(p) + 1) = p
\* ingest.llm_utils.normalize_number; None is NoneFloat
normalize_number(value) ==
    LET Signed(negative, number) ==
            IF number = ValueError THEN [m |-> 0, d |-> 0 - 1]
            ELSE IF negative THEN Float(0 - number.m, number.d)
            ELSE number
        Parse(negative, cleaned) ==
            Signed(negative, float(Replace(Replace(cleaned, ".", ""), ",", ".")))
        Cleaned(cleaned) ==
            IF cleaned = "" THEN [m |-> 0, d |-> 0 - 1]
            ELSE Parse(StartsWith(cleaned, "(") /\ EndsWith(cleaned, ")"),
                       StripChars(cleaned, {"(", ")"}))
    IN  Cleaned(Strip(value))

-----------------------------------------------------------------------------

\* Python dicts are functions; dict.get(k) gives NoId when k is absent.
EmptyMap == [k \in {} |-> NoId]
Get(map, k) == IF k \in DOMAIN map THEN map[k] ELSE NoId
Put(map, k, v) == [x \in (DOMAIN map) \cup {k} |-> IF x = k THEN v ELSE map[x]]
Values(map) == {map[k] : k \in DOMAIN map}

Range(seq) == {seq[i] : i \in 1..Len(seq)}

Step(op, t) == [op |-> op, t |-> t]

\* str(e) of an exception: its message and the table it names.
Exception(msg, t) == [msg |-> msg, table |-> t]
NoExc == Exception("", "")

\* Rows as the store keeps them.
JuriRow(id, doc, code, name) == [id |-> id, doc |-> doc, code |-> code, name |-> name]
\* pkey is history: the jurisdiction key the program was parsed with.
ProgRow(id, juri, doc, jcode, code, name, pkey) ==
    [id |-> id, juri |-> juri, doc |-> doc, jcode |-> jcode, code |-> code,
     name |-> name, tiene_metas |-> FALSE, pkey |-> pkey]
\* goal is history: the parsed goal the row was made from.
MetaRow(prog, name, goal) == [prog |-> prog, name |-> name, goal |-> goal]

\* The store assigns consecutive identifiers to the rows of one insert.
WithIds(rows, first) == [i \in 1..Len(rows) |-> [rows[i] EXCEPT !.id = first + i - 1]]

\* The store before the run: document d2 has been ingested by run_document
\* from one coded program line (J1, 01, 'Salud'), one goal of that program
\* and one row per flat table; the other documents await processing.
SeedJurisdiccion == <<JuriRow(1, "d2", "J1", "")>>
SeedProgramas ==
    <<[ProgRow(2, 1, "", "", "01", "Salud", "J1") EXCEPT !.tiene_metas = TRUE]>>
SeedMetas == <<MetaRow(2, "m1", [jcode |-> "J1", code |-> "01", pname |-> "salud", name |-> "m1"])>>
SeedFlat == [t \in FlatTables |-> <<[doc |-> "d2", k |-> 1]>>]
SeedNextId == Len(SeedJurisdiccion) + Len(SeedProgramas) + 1

\* What the store's foreign keys (Program -> Jurisdiction, Goal -> Program)
\* do when a referenced parent row is deleted: nothing (not enforced), reject
\* the delete, or delete the children too. The code does not fix it; it is
\* 'unobserved' until a delete first meets a referenced parent.
FkActions == {"unenforced", "restrict", "cascade"}
FkChoices(referenced) ==
    IF ~referenced THEN {fk_action}
    ELSE IF fk_action = "unobserved" THEN FkActions ELSE {fk_action}

\* str(e) of the RuntimeError delete_rows_by_filters raises for a rejected
\* delete: it carries the store's message.
FkViolation == "Error al borrar: violates foreign key constraint"

\* DELETE of the jurisdictions in `gone` (identifiers) under a foreign-key
\* action: rejected, or the three tables after it.
DeleteJurisdicciones(juri, prog, metas, gone, action) ==
    LET child_progs == {r.id : r \in {x \in Range(prog) : x.juri \in gone}}
        cascade == action = "cascade"
    IN [rejected |-> action = "restrict" /\ child_progs # {},
        juri |-> SelectSeq(juri, LAMBDA r : r.id \notin gone),
        prog |-> IF cascade THEN SelectSeq(prog, LAMBDA r : r.juri \notin gone) ELSE prog,
        metas |-> IF cascade THEN SelectSeq(metas, LAMBDA r : r.prog \notin child_progs)
                  ELSE metas]

\* DELETE of the programs in `gone` (identifiers) likewise.
DeleteProgramas(prog, metas, gone, action) ==
    LET referenced == \E r \in Range(metas) : r.prog \in gone
    IN [rejected |-> action = "restrict" /\ referenced,
        prog |-> SelectSeq(prog, LAMBDA r : r.id \notin gone),
        metas |-> IF action = "cascade" THEN SelectSeq(metas, LAMBDA r : r.prog \notin gone)
                  ELSE metas]

\* The identifiers of the rows of a table that satisfy a filter.
IdsWhere(table, Test(_)) == {r.id : r \in {x \in Range(table) : Test(x)}}

\* The second run, when there is none.

\* The parser run, when there is none.
ScanIdle == [parser |-> "none", status |-> "idle"]

\* The helper call, when there is none.
HelperIdle == [fn |-> "none", status |-> "idle"]


\* Bounds on the parsed content of one document.
MaxProgLines == 2
MaxGoals == 2
MaxFlatRows == 1
MaxPayloadRows == 2

-----------------------------------------------------------------------------
(* Deterministic parsers, as far as the orchestrators depend on them: the
   lines of a section are taken already classified. *)

\* Lines of the "Evolucion de Gastos por Programa" section:
\*   group: a header 'Departamento Ejecutivo' / 'H.C.D.' without amounts;
\*   named: a line without leading codes carrying five amounts or more;
\*   coded: '<jurisdiction code> <program code> <name> a1 .. a5'.
ProgLine(kind, juri, prog, name) == [kind |-> kind, juri |-> juri, prog |-> prog, name |-> name]
ProgLineSet ==
    {ProgLine("group", "", "", "Departamento Ejecutivo"),
     ProgLine("named", "", "", "Intendencia"),
     ProgLine("named", "", "", ""),
     ProgLine("coded", "J1", "01", "Salud"),
     ProgLine("coded", "J2", "01", "obras")}

ParsedJuri(code, name) == [code |-> code, name |-> name]
ParsedProg(jcode, jname, code, name) ==
    [jcode |-> jcode, jname |-> jname, code |-> code, name |-> name]
ParsedMeta(jcode, code, pname, name) ==
    [jcode |-> jcode, code |-> code, pname |-> pname, name |-> name]

\* parse_programas_from_text: one line, given the rows and the parser's
\* current_group / juri_actual so far.
ParseProgLine(st, line) ==
    CASE line.kind = "group" ->
            [st EXCEPT !.group = line.name, !.actual = line.name,
                       !.jurisdicciones = Append(@, ParsedJuri("", line.name))]
      [] line.kind = "named" ->
            LET hcd == st.group = "H.C.D." /\ Lower(line.name) = "actividades centrales"
                nm == IF hcd THEN "HCD" ELSE line.name
            IN [st EXCEPT !.actual = nm,
                          !.jurisdicciones = Append(@, ParsedJuri("", nm)),
                          !.programas = Append(@, ParsedProg("", nm, "", nm))]
      [] OTHER ->
            [st EXCEPT !.jurisdicciones = Append(@,
                           ParsedJuri(line.juri,
                                      IF st.group # "" THEN st.group ELSE st.actual)),
                       !.programas = Append(@,
                           ParsedProg(line.juri, "", line.prog, line.name))]

RECURSIVE ParseProgLines(_, _)
ParseProgLines(st, lines) ==
    IF lines = <<>> THEN st
    ELSE ParseProgLines(ParseProgLine(st, Head(lines)), Tail(lines))

parse_programas_from_text(lines) ==
    ParseProgLines([group |-> "", actual |-> "", jurisdicciones |-> <<>>,
                    programas |-> <<>>], lines)

\* Rows parse_metas_from_text can return: every goal carries the jurisdiction
\* code, program code and program name of its program header.
MetaSet ==
    {ParsedMeta("J1", "01", "salud", "m1"),
     ParsedMeta("J1", "02", "Salud", "m2"),
     ParsedMeta("J2", "02", "vial", "m3")}

\* All sequences over S of length at most n.
RECURSIVE SeqsUpTo(_, _)
SeqsUpTo(S, n) ==
    IF n = 0 THEN {<<>>}
    ELSE LET shorter == SeqsUpTo(S, n - 1)
         IN shorter \cup {Append(s, x) : s \in {t \in shorter : Len(t) = n - 1}, x \in S}


-----------------------------------------------------------------------------
(* run_document: the pure steps between its store calls *)

\* `key = code or name`
JuriKey(j) == IF j.code # "" THEN j.code ELSE j.name

\* Step 9: juri_rows, de-duplicated by key, keyless rows skipped.
RECURSIVE BuildJuriRows(_, _, _, _)
BuildJuriRows(jurisdicciones, doc, seen, acc) ==
    IF jurisdicciones = <<>> THEN acc
    ELSE LET j == Head(jurisdicciones)
             key == JuriKey(j)
         IN IF key = "" \/ key \in seen
            THEN BuildJuriRows(Tail(jurisdicciones), doc, seen, acc)
            ELSE BuildJuriRows(Tail(jurisdicciones), doc, seen \cup {key},
                               Append(acc, JuriRow(NoId, doc, j.code, j.name)))

\* The fetch without its document filter.
FetchJurisdiccionAnyDoc(doc) == bd_jurisdiccion

\* fetch_rows(bd_jurisdiccion, {ID_DocumentoCargado: doc_id})
FetchJurisdiccion(doc) == SelectSeq(bd_jurisdiccion, LAMBDA r : r.doc = doc)

\* Step 10: juri_map, keyed by code, or by name for a row without code.
RECURSIVE BuildJuriMap(_, _)
BuildJuriMap(juri_db, acc) ==
    IF juri_db = <<>> THEN acc
    ELSE LET j == Head(juri_db)
         IN BuildJuriMap(Tail(juri_db),
                IF j.code # "" THEN Put(acc, j.code, j.id)
                ELSE IF j.name # "" THEN Put(acc, j.name, j.id)
                ELSE acc)

\* Step 11: the jurisdiction of a parsed program: by code, else by name.
ProgJuriId(p, jmap) ==
    LET by_code == IF p.jcode # "" THEN Get(jmap, p.jcode) ELSE NoId
    IN IF by_code = NoId /\ p.jname # "" THEN Get(jmap, p.jname) ELSE by_code

\* The program's own jurisdiction key, as parsed.
ProgKey(p) == IF p.jcode # "" THEN p.jcode ELSE p.jname

\* Step 11: prog_rows and the warnings for programs without jurisdiction.
RECURSIVE MapProgramas(_, _, _)
MapProgramas(programas, jmap, acc) ==
    IF programas = <<>> THEN acc
    ELSE LET p == Head(programas)
             juri_id == ProgJuriId(p, jmap)
         IN MapProgramas(Tail(programas), jmap,
                IF juri_id = NoId
                THEN [acc EXCEPT !.warnings = Append(@,
                         [kind |-> "Programa sin jurisdiccion", name |-> p.name])]
                ELSE [acc EXCEPT !.rows = Append(@,
                         ProgRow(NoId, juri_id, "", "", p.code, p.name, ProgKey(p)))])


\* fetch_rows(bd_programas, {ID_Jurisdiccion: list(juri_map.values())})
FetchProgramas(juri_ids) == SelectSeq(bd_programas, LAMBDA r : r.juri \in juri_ids)

\* `for code, jid in juri_map.items(): if jid == juri_id: juri_code = code`
JuriCodeOfId(jmap, juri_id) ==
    IF \E k \in DOMAIN jmap : jmap[k] = juri_id
    THEN CHOOSE k \in DOMAIN jmap : jmap[k] = juri_id
    ELSE ""

\* Step 15: prog_by_key and prog_by_name in one lookup, keyed
\* <<"key", juri_code, prog_code>> and <<"name", juri_code, prog_name>>.
RECURSIVE BuildProgLookup(_, _, _)
BuildProgLookup(prog_db, jmap, acc) ==
    IF prog_db = <<>> THEN acc
    ELSE LET p == Head(prog_db)
             prog_code == Strip(p.code)
             prog_name == Lower(Strip(p.name))
             juri_code == JuriCodeOfId(jmap, p.juri)
             with_key == IF juri_code # "" /\ prog_code # ""
                         THEN Put(acc, <<"key", juri_code, prog_code>>, p.id)
                         ELSE acc
             with_name == IF juri_code # "" /\ prog_name # ""
                          THEN Put(with_key, <<"name", juri_code, prog_name>>, p.id)
                          ELSE with_key
         IN BuildProgLookup(Tail(prog_db), jmap, with_name)

\* Step 15: the program of a parsed goal: by (jurisdiction code, program code),
\* else by (jurisdiction code, program name).
MetaProgId(m, lookup) ==
    LET juri_code == Strip(m.jcode)
        prog_code == Strip(m.code)
        prog_name == Lower(Strip(m.pname))
        by_key == IF juri_code # "" /\ prog_code # ""
                  THEN Get(lookup, <<"key", juri_code, prog_code>>) ELSE NoId
    IN IF by_key = NoId /\ juri_code # "" /\ prog_name # ""
       THEN Get(lookup, <<"name", juri_code, prog_name>>)
       ELSE by_key

\* Step 15: metas_rows and the warnings; a goal without program is dropped
\* (`continue`) after its warning.
RECURSIVE MapMetas(_, _, _)
MapMetas(metas_raw, lookup, acc) ==
    IF metas_raw = <<>> THEN acc
    ELSE LET m == Head(metas_raw)
             prog_id == MetaProgId(m, lookup)
         IN MapMetas(Tail(metas_raw), lookup,
                IF prog_id = NoId
                THEN [acc EXCEPT !.warnings = Append(@,
                         [kind |-> "No se encontro programa para meta", name |-> m.name])]
                ELSE [acc EXCEPT !.rows = Append(@, MetaRow(prog_id, m.name, m))])

\* run_single_shot's metas_only before extract_metas_only is called
NotCalled == [called |-> FALSE, bd_metas |-> <<>>]
EmptyParsed ==
    [jurisdicciones |-> <<>>, programas |-> <<>>, metas |-> <<>>, flat_n |-> 0,
     metas_only |-> NotCalled]
NoResultYet == [ok |-> FALSE, error |-> NoExc, returned |-> FALSE]
EmptyWritten == [bd_programas |-> <<>>, bd_metas |-> <<>>]

\* The second run: its document, what it parsed from it, and its locals.
OtherDoc == "d2"
\* What the second run parsed from its document.
OtherInput ==
    LET res == parse_programas_from_text(<<ProgLine("coded", "J1", "01", "Salud")>>)
    IN [jurisdicciones |-> res.jurisdicciones, programas |-> res.programas,
        metas |-> <<ParsedMeta("J1", "01", "salud", "m1")>>, flat_n |-> 1]
\* What a run parses from a document with no programs section.
FlatOnlyInput ==
    [jurisdicciones |-> <<>>, programas |-> <<>>, metas |-> <<>>, flat_n |-> 1]
OtherIdle ==
    [pc |-> 0, doc |-> OtherDoc, input |-> OtherInput, juri_map |-> EmptyMap,
     prog_rows |-> <<>>, metas_rows |-> <<>>]


-----------------------------------------------------------------------------
(* The payloads of the LLM extractors, and upserts *)

\* Items a schema-valid payload can carry; the codes are the model's text,
\* possibly padded (" J1") or missing ("").
PayloadJuriSet == {ParsedJuri("J1", "Salud"), ParsedJuri("J2", "Obras")}
PayloadProgSet ==
    {ParsedProg("J1", "", "01", "Salud"), ParsedProg(" J1", "", "02", "salud"),
     ParsedProg("J2", "", "01", "obras")}
PayloadMetaSet ==
    {ParsedMeta("J1", "01", "salud", "m1"), ParsedMeta("J1", "02", "Salud", "m2"),
     ParsedMeta("", "01", "", "m4"), ParsedMeta("J2", "", "Salud", "m5")}
\* run_single_shot: `if metas_count < 50`
MetasOnlyBelow == 50
\* A bd_metas array that reaches the threshold.
ManyMetas == [i \in 1..MetasOnlyBelow |-> ParsedMeta("J1", "01", "salud", "m1")]
\* The bd_metas arrays an extractor call of run_single_shot can return.
MetasArrays == SeqsUpTo(PayloadMetaSet, MaxGoals) \cup {ManyMetas}

\* The columns of an upsert's on_conflict, per target, and whether one of
\* them is NULL (a NULL never conflicts).
ConflictKey(t, r) ==
    CASE t = "bd_jurisdiccion" -> <<r.doc, r.code>>
      [] t = "bd_programas" -> <<r.juri, r.code>>
      [] t = "bd_programas_doc" -> <<r.doc, r.jcode, r.code>>
      [] OTHER -> <<r.prog, r.name>>
NullKey(t, r) ==
    CASE t = "bd_jurisdiccion" -> r.code = ""
      [] t = "bd_programas" -> r.code = ""
      [] t = "bd_programas_doc" -> r.jcode = "" \/ r.code = ""
      [] OTHER -> r.name = ""

Conflicts(t, a, b) ==
    ~NullKey(t, a) /\ ~NullKey(t, b) /\ ConflictKey(t, a) = ConflictKey(t, b)

\* Two rows of one batch hit the same key: the store rejects the command.
HasDuplicateKeys(t, rows) ==
    \E i, k \in 1..Len(rows) : i < k /\ Conflicts(t, rows[i], rows[k])

\* table.upsert(rows, on_conflict=...): a row whose key exists replaces that
\* row's columns (the row keeps its identifier), another row is inserted.
\* Gives the table, the next free identifier and the rows as stored.
RECURSIVE Upsert(_, _, _, _, _)
Upsert(t, table, rows, nid, out) ==
    IF rows = <<>> THEN [table |-> table, next |-> nid, out |-> out]
    ELSE LET r == Head(rows)
             hit == {i \in 1..Len(table) : Conflicts(t, table[i], r)}
         IN IF hit = {}
            THEN LET stored == IF "id" \in DOMAIN r THEN [r EXCEPT !.id = nid] ELSE r
                 IN Upsert(t, Append(table, stored), Tail(rows),
                           IF "id" \in DOMAIN r THEN nid + 1 ELSE nid,
                           Append(out, stored))
            ELSE LET i == CHOOSE k \in hit : TRUE
                     stored == IF "id" \in DOMAIN r
                               THEN [r EXCEPT !.id = table[i].id] ELSE r
                 IN Upsert(t, [table EXCEPT ![i] = stored], Tail(rows), nid,
                           Append(out, stored))

-----------------------------------------------------------------------------
(* run_single_shot / run_single_shot_xlsx: the pure steps *)

\* _map_juri
RECURSIVE map_juri(_, _)
map_juri(items, doc) ==
    IF items = <<>> THEN <<>>
    ELSE <<JuriRow(NoId, doc, Head(items).code, Head(items).name)>>
         \o map_juri(Tail(items), doc)

\* `{j.get("Juri_Codigo"): j.get("ID_Jurisdiccion") for j in juri_db if j.get("Juri_Codigo")}`
RECURSIVE JuriMapByCode(_, _)
JuriMapByCode(juri_db, acc) ==
    IF juri_db = <<>> THEN acc
    ELSE JuriMapByCode(Tail(juri_db),
            IF Head(juri_db).code # "" THEN Put(acc, Head(juri_db).code, Head(juri_db).id)
            ELSE acc)

\* _map_programas: `juri_map.get(str(juri_codigo).strip())`
RECURSIVE map_programas(_, _, _)
map_programas(items, jmap, acc) ==
    IF items = <<>> THEN acc
    ELSE LET p == Head(items)
             juri_id == Get(jmap, Strip(p.jcode))
         IN map_programas(Tail(items), jmap,
                IF juri_id = NoId
                THEN [acc EXCEPT !.warnings = Append(@,
                         [kind |-> "Programa sin jurisdiccion", name |-> p.name])]
                ELSE [acc EXCEPT !.rows = Append(@,
                         ProgRow(NoId, juri_id, "", "", p.code, p.name, p.jcode))])

\* _build_program_mapping (single_shot): keys program code and
\* "{jurisdiction code}::{program code}", here <<"code", P>> and <<"pair", J, P>>.
RECURSIVE build_program_mapping(_, _, _)
build_program_mapping(program_rows, jmap, acc) ==
    IF program_rows = <<>> THEN acc
    ELSE LET row == Head(program_rows)
             prog_codigo == Strip(row.code)
             juri_codigo == JuriCodeOfId(jmap, row.juri)
             by_code == IF prog_codigo # ""
                        THEN Put(acc, <<"code", prog_codigo>>, row.id) ELSE acc
             by_pair == IF juri_codigo # "" /\ prog_codigo # ""
                        THEN Put(by_code, <<"pair", juri_codigo, prog_codigo>>, row.id)
                        ELSE by_code
         IN build_program_mapping(Tail(program_rows), jmap, by_pair)

\* _create_programs_from_metas: the rows it upserts.
RECURSIVE ProgramsFromMetas(_, _, _, _)
ProgramsFromMetas(items, jmap, seen, acc) ==
    IF items = <<>> THEN acc
    ELSE LET m == Head(items)
             juri_codigo == Strip(m.jcode)
             prog_codigo == Strip(m.code)
             prog_nombre == Strip(m.pname)
             key == <<juri_codigo, prog_codigo>>
         IN IF \/ juri_codigo = "" \/ prog_codigo = "" \/ prog_nombre = ""
               \/ key \in seen
               \/ Get(jmap, juri_codigo) = NoId
            THEN ProgramsFromMetas(Tail(items), jmap, seen, acc)
            ELSE ProgramsFromMetas(Tail(items), jmap, seen \cup {key},
                    Append(acc, ProgRow(NoId, Get(jmap, juri_codigo), "", "",
                                        prog_codigo, prog_nombre, juri_codigo)))

\* The lookup key without the jurisdiction code.
MetaKeyCodeOnly(m) == <<"code", Strip(m.code)>>

\* The key _map_metas looks a goal up with.
MetaKey(m) ==
    LET juri_codigo == Strip(m.jcode)
        prog_codigo == Strip(m.code)
    IN IF juri_codigo # "" /\ prog_codigo # ""
       THEN <<"pair", juri_codigo, prog_codigo>> ELSE <<"code", prog_codigo>>

\* The append left out.
KeepUnresolvedDropped(unresolved, item) == unresolved

\* `unresolved.append(item)` of _map_metas
KeepUnresolved(unresolved, item) == Append(unresolved, item)

\* _map_metas: rows, warnings, unresolved.
RECURSIVE map_metas(_, _, _)
map_metas(items, mapping, acc) ==
    IF items = <<>> THEN acc
    ELSE LET m == Head(items)
             prog_id == Get(mapping, MetaKey(m))
         IN map_metas(Tail(items), mapping,
                IF prog_id = NoId
                THEN [acc EXCEPT !.warnings = Append(@,
                         [kind |-> "Meta sin programa", name |-> m.name]),
                                 !.unresolved = KeepUnresolved(@, m)]
                ELSE [acc EXCEPT !.rows = Append(@, MetaRow(prog_id, m.name, m))])

-----------------------------------------------------------------------------
(* ingest: the pure steps of main and extract_metas *)

\* _norm on the model's strings
Norm(text) == Lower(Strip(text))

\* _prep_juri_rows, _prep_prog_rows
RECURSIVE prep_prog_rows(_, _)
prep_prog_rows(items, doc) ==
    IF items = <<>> THEN <<>>
    ELSE LET p == Head(items)
         IN <<ProgRow(NoId, NoId, doc, p.jcode, p.code, p.name, p.jcode)>>
            \o prep_prog_rows(Tail(items), doc)

\* fetch_programas_mapping(client, doc_id)
FetchProgramasMapping(doc) == SelectSeq(bd_programas, LAMBDA r : r.doc = doc)

\* _build_program_mapping (ingest): keys "P", "J::P", "nombre::n",
\* "J::nombre::n", here <<"code", P>>, <<"pair", J, P>>, <<"nombre", n>>,
\* <<"juri_nombre", J, n>>.
RECURSIVE ingest_build_program_mapping(_, _)
ingest_build_program_mapping(rows, acc) ==
    IF rows = <<>> THEN acc
    ELSE LET row == Head(rows)
             prog_codigo == Strip(row.code)
             juri_codigo == Strip(row.jcode)
             prog_nombre == Strip(row.name)
             m1 == IF prog_codigo # ""
                   THEN Put(acc, <<"code", prog_codigo>>, row.id) ELSE acc
             m2 == IF juri_codigo # "" /\ prog_codigo # ""
                   THEN Put(m1, <<"pair", juri_codigo, prog_codigo>>, row.id) ELSE m1
             m3 == IF prog_nombre # ""
                   THEN Put(m2, <<"nombre", Norm(prog_nombre)>>, row.id) ELSE m2
             m4 == IF juri_codigo # "" /\ prog_nombre # ""
                   THEN Put(m3, <<"juri_nombre", juri_codigo, Norm(prog_nombre)>>, row.id)
                   ELSE m3
         IN ingest_build_program_mapping(Tail(rows), m4)

\* `a or b` on identifiers
Or(a, b) == IF a # NoId THEN a ELSE b

\* _resolve_program_id
resolve_program_id(mapping, meta) ==
    LET prog_codigo == Strip(meta.code)
        juri_codigo == Strip(meta.jcode)
        prog_nombre == Strip(meta.pname)
    IN IF juri_codigo # "" /\ prog_codigo # ""
       THEN Or(Get(mapping, <<"pair", juri_codigo, prog_codigo>>),
               Get(mapping, <<"code", prog_codigo>>))
       ELSE IF prog_codigo # "" THEN Get(mapping, <<"code", prog_codigo>>)
       ELSE IF juri_codigo # "" /\ prog_nombre # ""
       THEN Or(Get(mapping, <<"juri_nombre", juri_codigo, Norm(prog_nombre)>>),
               Get(mapping, <<"nombre", Norm(prog_nombre)>>))
       ELSE IF prog_nombre # "" THEN Get(mapping, <<"nombre", Norm(prog_nombre)>>)
       ELSE NoId

\* extract_metas, after the extractor's call: resolved and unresolved.
RECURSIVE extract_metas(_, _, _)
extract_metas(metas, mapping, acc) ==
    IF metas = <<>> THEN acc
    ELSE LET meta == Head(metas)
             id_programa == resolve_program_id(mapping, meta)
         IN extract_metas(Tail(metas), mapping,
                IF id_programa = NoId
                THEN [acc EXCEPT !.unresolved = KeepUnresolved(@, meta)]
                ELSE [acc EXCEPT !.rows = Append(@, MetaRow(id_programa, meta.name, meta))])

-----------------------------------------------------------------------------
(* ingest_rafam_xlsx (pipeline/ingest_xlsx.py) *)

\* Rows of Table 2 matching _PROG_RE with five amounts, as coded lines.
Table2Lines == {l \in ProgLineSet : l.kind = "coded"}

\* _parse_table2_programas: jurisdictions, one per code, and programs.
RECURSIVE Table2Jurisdicciones(_, _, _)
Table2Jurisdicciones(lines, seen, acc) ==
    IF lines = <<>> THEN acc
    ELSE LET l == Head(lines)
         IN IF l.juri \in seen THEN Table2Jurisdicciones(Tail(lines), seen, acc)
            ELSE Table2Jurisdicciones(Tail(lines), seen \cup {l.juri},
                                      Append(acc, ParsedJuri(l.juri, l.juri)))

\* programas_base + programas_extra (the program headers of Table 4), merged
\* by (Juri_Codigo, Prog_Codigo), the first kept.
RECURSIVE MergeProgramas(_, _, _)
MergeProgramas(progs, seen, acc) ==
    IF progs = <<>> THEN acc
    ELSE LET p == Head(progs)
             key == <<p.jcode, p.code>>
         IN IF key \in seen THEN MergeProgramas(Tail(progs), seen, acc)
            ELSE MergeProgramas(Tail(progs), seen \cup {key}, Append(acc, p))

RxProgramas(lines, metas) ==
    MergeProgramas(
        [i \in 1..Len(lines) |-> ParsedProg(lines[i].juri, "", lines[i].prog, lines[i].name)]
        \o [i \in 1..Len(metas) |-> ParsedProg(metas[i].jcode, "", metas[i].code, metas[i].pname)],
        {}, <<>>)

\* `{row.get("Juri_Codigo"): row.get("ID_Jurisdiccion") for row in juri_rows}`
RECURSIVE RxJuriMap(_, _)
RxJuriMap(juri_db, acc) ==
    IF juri_db = <<>> THEN acc
    ELSE RxJuriMap(Tail(juri_db), Put(acc, Head(juri_db).code, Head(juri_db).id))

\* programas_db: `juri_map.get(prog.get("Juri_Codigo"))`, a logger warning
\* for a program without jurisdiction.
RECURSIVE RxMapProgramas(_, _, _)
RxMapProgramas(programas, jmap, acc) ==
    IF programas = <<>> THEN acc
    ELSE LET p == Head(programas)
             juri_id == Get(jmap, p.jcode)
         IN RxMapProgramas(Tail(programas), jmap,
                IF juri_id = NoId
                THEN [acc EXCEPT !.warnings = Append(@,
                         [kind |-> "Programa sin jurisdiccion", name |-> p.name])]
                ELSE [acc EXCEPT !.rows = Append(@,
                         ProgRow(NoId, juri_id, "", "", p.code, p.name, p.jcode))])

\* prog_map_db[(juri_code, prog_code)]
RECURSIVE RxProgMap(_, _, _)
RxProgMap(prog_rows_db, jmap, acc) ==
    IF prog_rows_db = <<>> THEN acc
    ELSE LET row == Head(prog_rows_db)
             prog_code == Strip(row.code)
             juri_code == JuriCodeOfId(jmap, row.juri)
         IN RxProgMap(Tail(prog_rows_db), jmap,
                IF prog_code # "" /\ row.juri # NoId /\ juri_code # ""
                THEN Put(acc, <<"pair", juri_code, prog_code>>, row.id)
                ELSE acc)

\* metas_db: a goal without program gets a logger warning and `continue`.
RECURSIVE RxMapMetas(_, _, _)
RxMapMetas(metas, prog_map_db, acc) ==
    IF metas = <<>> THEN acc
    ELSE LET meta == Head(metas)
             prog_id == Get(prog_map_db, <<"pair", meta.jcode, meta.code>>)
         IN RxMapMetas(Tail(metas), prog_map_db,
                IF prog_id = NoId
                THEN [acc EXCEPT !.warnings = Append(@,
                         [kind |-> "Meta sin programa", name |-> meta.name])]
                ELSE [acc EXCEPT !.rows = Append(@, MetaRow(prog_id, meta.name, meta))])

-----------------------------------------------------------------------------
(* Control flow shared by the orchestrators *)

\* run_document with bd_recursos replaced before the status is set
RunDocumentProgramWritesFirst ==
    <<Step("fetch_doc", ""),
      Step("flat_delete", "bd_recursos"), Step("flat_insert", "bd_recursos"),
      Step("mark_processing", ""), Step("download", ""),
      Step("extract_parse", ""),
      Step("flat_delete", "bd_gastos"), Step("flat_insert", "bd_gastos"),
      Step("juri_delete", ""), Step("juri_insert", ""), Step("juri_fetch", ""),
      Step("prog_delete", ""), Step("prog_insert", ""),
      Step("flat_delete", "bd_movimientosTesoreria"),
      Step("flat_insert", "bd_movimientosTesoreria"),
      Step("flat_delete", "bd_cuentas"), Step("flat_insert", "bd_cuentas"),
      Step("flat_delete", "bd_situacionpatrimonial"),
      Step("flat_insert", "bd_situacionpatrimonial"),
      Step("prog_fetch", ""), Step("metas_delete", ""), Step("metas_insert", ""),
      Step("tienemetas_update", ""), Step("mark_done", ""), Step("returned", "")>>

\* run_document, step by step (runner.py).
RunDocumentProgram ==
    <<Step("fetch_doc", ""), Step("mark_processing", ""), Step("download", ""),
      Step("extract_parse", ""),
      Step("flat_delete", "bd_recursos"), Step("flat_insert", "bd_recursos"),
      Step("flat_delete", "bd_gastos"), Step("flat_insert", "bd_gastos"),
      Step("juri_delete", ""), Step("juri_insert", ""), Step("juri_fetch", ""),
      Step("prog_delete", ""), Step("prog_insert", ""),
      Step("flat_delete", "bd_movimientosTesoreria"),
      Step("flat_insert", "bd_movimientosTesoreria"),
      Step("flat_delete", "bd_cuentas"), Step("flat_insert", "bd_cuentas"),
      Step("flat_delete", "bd_situacionpatrimonial"),
      Step("flat_insert", "bd_situacionpatrimonial"),
      Step("prog_fetch", ""), Step("metas_delete", ""), Step("metas_insert", ""),
      Step("tienemetas_update", ""), Step("mark_done", ""), Step("returned", "")>>

\* The steps with the programs fetched before they are written.
SingleShotProgramFetchFirst ==
    <<Step("create_doc", ""), Step("extract", ""), Step("metas_only", ""),
      Step("metas_reload", ""),
      Step("juri_upsert", ""), Step("ss_juri_fetch", ""), Step("ss_prog_fetch", ""),
      Step("prog_upsert", ""), Step("create_progs", ""), Step("map_metas", ""),
      Step("staging", ""), Step("metas_upsert", ""),
      Step("flat_upsert", "bd_cuentas"), Step("flat_upsert", "bd_gastos"),
      Step("flat_upsert", "bd_recursos"), Step("flat_upsert", "bd_movimientosTesoreria"),
      Step("flat_upsert", "bd_situacionpatrimonial"),
      Step("mark_completed", ""), Step("returned", "")>>


SingleShotProgram ==
    <<Step("create_doc", ""), Step("extract", ""), Step("metas_only", ""),
      Step("metas_reload", ""),
      Step("juri_upsert", ""), Step("ss_juri_fetch", ""), Step("prog_upsert", ""),
      Step("ss_prog_fetch", ""), Step("create_progs", ""), Step("map_metas", ""),
      Step("staging", ""), Step("metas_upsert", ""),
      Step("flat_upsert", "bd_cuentas"), Step("flat_upsert", "bd_gastos"),
      Step("flat_upsert", "bd_recursos"), Step("flat_upsert", "bd_movimientosTesoreria"),
      Step("flat_upsert", "bd_situacionpatrimonial"),
      Step("mark_completed", ""), Step("returned", "")>>

XlsxSingleShotProgram ==
    <<Step("create_doc", ""), Step("extract", ""),
      Step("juri_upsert", ""), Step("ss_juri_fetch", ""), Step("prog_upsert", ""),
      Step("ss_prog_fetch", ""), Step("map_metas", ""),
      Step("staging", ""), Step("metas_upsert", ""),
      Step("flat_upsert", "bd_cuentas"), Step("flat_upsert", "bd_gastos"),
      Step("flat_upsert", "bd_recursos"), Step("flat_upsert", "bd_movimientosTesoreria"),
      Step("flat_upsert", "bd_situacionpatrimonial"),
      Step("mark_completed", ""), Step("returned", "")>>

IngestMainProgram ==
    <<Step("create_doc", ""), Step("extract", ""), Step("juri_upsert", ""),
      Step("prog_upsert", ""), Step("fetch_mapping", ""), Step("extract_metas", ""),
      Step("staging", ""), Step("metas_upsert", ""),
      Step("mark_completed", ""), Step("returned", "")>>

IngestRafamXlsxProgram ==
    <<Step("rx_read", ""),
      Step("flat_delete", "bd_recursos"), Step("flat_insert", "bd_recursos"),
      Step("flat_delete", "bd_gastos"), Step("flat_insert", "bd_gastos"),
      Step("juri_upsert", ""), Step("rx_juri_fetch", ""), Step("prog_upsert", ""),
      Step("rx_prog_fetch", ""), Step("metas_delete", ""), Step("metas_insert", ""),
      Step("flat_delete", "bd_movimientosTesoreria"),
      Step("flat_insert", "bd_movimientosTesoreria"),
      Step("flat_delete", "bd_cuentas"), Step("flat_insert", "bd_cuentas"),
      Step("flat_delete", "bd_situacionpatrimonial"),
      Step("flat_insert", "bd_situacionpatrimonial"),
      Step("rx_return", ""), Step("returned", "")>>

Orchestrators ==
    {"run_document", "run_single_shot", "run_single_shot_xlsx", "ingest_main",
     "ingest_rafam_xlsx"}

\* SupabaseAgent.cleanup_orphan_records and reset_document_data
AgentOps == {"cleanup_orphan_records", "reset_document_data"}
\* reset_document_data: `tables` when the caller gives None
ResetTables ==
    <<"bd_recursos", "bd_gastos", "bd_jurisdiccion", "bd_situacionpatrimonial",
      "bd_movimientosTesoreria", "bd_cuentas">>
CleanupProgram ==
    <<Step("find_orphans", ""), Step("delete_orphans", ""), Step("agent_done", "ok")>>
ResetProgram ==
    <<Step("count_records", "")>>
    \o [i \in 1..Len(ResetTables) |-> Step("reset_delete", ResetTables[i])]
    \o <<Step("reset_return", ""), Step("agent_done", "ok")>>
\* the operations that take a dry_run argument
DryRunOps == AgentOps \cup {"ingest_rafam_xlsx"}
AgentIdle == [table_name |-> "", orphan_ids |-> {}, counts |-> <<>>]

Program ==
    CASE orch = "run_single_shot" -> SingleShotProgram
      [] orch = "cleanup_orphan_records" -> CleanupProgram
      [] orch = "reset_document_data" -> ResetProgram
      [] orch = "run_single_shot_xlsx" -> XlsxSingleShotProgram
      [] orch = "ingest_main" -> IngestMainProgram
      [] orch = "ingest_rafam_xlsx" -> IngestRafamXlsxProgram
      [] OTHER -> RunDocumentProgram

\* The step after pc in the running orchestrator.
After(step) ==
    LET i == CHOOSE k \in 1..Len(Program) : Program[k] = step IN Program[i + 1]

Advance == pc' = After(pc) /\ UNCHANGED <<exc, raised, result>>

\* An exception leaves the step: run_document catches it (`except Exception
\* as e`), the other orchestrators let it propagate to their caller.
Throw(e) ==
    IF orch = "run_document"
    THEN pc' = Step("except", "") /\ exc' = e /\ UNCHANGED <<raised, result>>
    ELSE pc' = Step("raised", "") /\ raised' = e /\ UNCHANGED <<exc, result>>

data_vars == <<parsed, juri_rows, juri_map, prog_rows, program_mapping,
               metas_rows, metas_unresolved, warnings>>
arg_vars == <<orch, doc_id, dry_run, agent>>
hist_vars == <<was_processing, written>>

\* A program whose jurisdiction is not stored, and the identifier it has.
OrphanPrograma == ProgRow(SeedNextId, SeedNextId + 1, "", "", "02", "Obras", "J9")
\* The agent's operations start on a store that has the orphan too.
SeedOrphans == IF orch \in AgentOps THEN <<OrphanPrograma>> ELSE <<>>

OrInit ==
    /\ orch \in Orchestrators \cup AgentOps
    /\ pc = Program[1]
    /\ doc_id \in DocIdArgsOf(orch)
    /\ dry_run \in (IF orch \in DryRunOps THEN BOOLEAN ELSE {FALSE})
    /\ agent = AgentIdle
    /\ doc_status = InitialStatus
    /\ doc_error = [d \in Docs |-> NoExc]
    /\ bd_jurisdiccion = SeedJurisdiccion
    /\ bd_programas = SeedProgramas \o SeedOrphans
    /\ bd_metas = SeedMetas
    /\ metas_staging = <<>>
    /\ flat = SeedFlat
    /\ next_id = SeedNextId + Len(SeedOrphans)
    /\ parsed = EmptyParsed
    /\ juri_rows = <<>>
    /\ juri_map = EmptyMap
    /\ prog_rows = <<>>
    /\ program_mapping = EmptyMap
    /\ metas_rows = <<>>
    /\ metas_unresolved = <<>>
    /\ warnings = <<>>
    /\ exc = NoExc
    /\ result = NoResultYet
    /\ raised = NoExc
    /\ was_processing = FALSE
    /\ written = EmptyWritten
    /\ fk_action = "unobserved"

-----------------------------------------------------------------------------
(* update_document_status (load_supabase.py) *)

\* The update of Doc_Estado / Doc_Error of one document; an id no row has
\* updates nothing.
SetStatus(d, status, error_msg) ==
    IF d \in Docs /\ doc_status[d] # "absent"
    THEN /\ doc_status' = [doc_status EXCEPT ![d] = status]
         /\ doc_error' = [doc_error EXCEPT ![d] = error_msg]
    ELSE UNCHANGED <<doc_status, doc_error>>

-----------------------------------------------------------------------------
(* run_document (runner.py) *)

\* Lines 58-68: the checks on doc_id and the document, with fetch_documents.
FetchDocument ==
    /\ pc = Step("fetch_doc", "")
    /\ \E ok \in BOOLEAN :
        IF doc_id = "" THEN ok /\ Throw(Exception("doc_id esta vacio.", ""))
        ELSE IF ~ok THEN Throw(Exception("Error al consultar documentos", ""))
        ELSE IF doc_status[doc_id] = "absent"
        THEN Throw(Exception("No se encontro el documento solicitado.", ""))
        ELSE IF ~DocRecord(doc_id).storage_path
        THEN Throw(Exception("El documento no tiene storage_path.", ""))
        ELSE Advance
    /\ UNCHANGED <<ex_vars, scan, helper, env_vars, arg_vars, store_vars, data_vars, hist_vars>>

\* Line 71: update_document_status(supabase, doc_id, "Procesando")
MarkProcessing ==
    /\ pc = Step("mark_processing", "")
    /\ \E ok \in BOOLEAN :
        IF ok
        THEN /\ SetStatus(doc_id, "Procesando", NoExc)
             /\ was_processing' = TRUE
             /\ Advance
        ELSE /\ Throw(Exception("Error al actualizar estado del documento", ""))
             /\ UNCHANGED <<doc_status, doc_error, was_processing>>
    /\ UNCHANGED <<ex_vars, scan, helper, env_vars, arg_vars, bd_jurisdiccion, bd_programas, bd_metas, metas_staging,
                   flat, next_id, data_vars, written>>

\* Lines 74-82: download_pdf_from_storage, then the document type check.
Download ==
    /\ pc = Step("download", "")
    /\ \E ok \in BOOLEAN :
        IF ~ok THEN Throw(Exception("Error al descargar desde Storage", ""))
        ELSE IF ~DocRecord(doc_id).siteco
        THEN Throw(Exception("Tipo de documento no soportado para este runner.", ""))
        ELSE Advance
    /\ UNCHANGED <<ex_vars, scan, helper, env_vars, arg_vars, store_vars, data_vars, hist_vars>>

\* Lines 85-97: text extraction and the parsers of recursos, gastos and
\* programas; the parsed content is the input of the run.
ExtractParse ==
    /\ pc = Step("extract_parse", "")
    /\ \E ok \in BOOLEAN :
        IF ok
        THEN /\ \E lines \in SeqsUpTo(ProgLineSet, MaxProgLines), n \in 0..MaxFlatRows :
                  LET res == parse_programas_from_text(lines)
                  IN parsed' = [parsed EXCEPT !.jurisdicciones = res.jurisdicciones,
                                              !.programas = res.programas,
                                              !.flat_n = n]
             /\ Advance
        ELSE /\ Throw(Exception("Error al leer el PDF", ""))
             /\ UNCHANGED parsed
    /\ UNCHANGED <<ex_vars, scan, helper, env_vars, arg_vars, store_vars, juri_rows, juri_map, prog_rows,
                   program_mapping, metas_rows, metas_unresolved, warnings, hist_vars>>

\* A table has no row order: the model keeps a flat table grouped by
\* document, the rows of one document in insertion order.
DocOrder == <<"d0", "d1", "d2", "d3", "d4">>
RECURSIVE GroupByDoc(_, _)
GroupByDoc(rows, docs) ==
    IF docs = <<>> THEN <<>>
    ELSE SelectSeq(rows, LAMBDA r : r.doc = Head(docs)) \o GroupByDoc(rows, Tail(docs))

\* The delete that removes nothing.
DeleteNothing(rows, doc) == rows

\* The delete without its filter.
DeleteUnfiltered(rows, doc) == <<>>

\* delete_rows_by_filters with the filter {ID_DocumentoCargado: doc}: the rows
\* left in the table.
DeleteByDoc(rows, doc) == SelectSeq(rows, LAMBDA r : r.doc # doc)

\* delete_rows_by_filters(table, {ID_DocumentoCargado: doc_id}) of a flat table.
FlatDelete(t) ==
    /\ pc = Step("flat_delete", t)
    /\ \E ok \in BOOLEAN :
        IF ok
        THEN /\ flat' = [flat EXCEPT ![t] = DeleteByDoc(@, doc_id)]
             /\ Advance
        ELSE /\ Throw(Exception("Error al borrar", t))
             /\ UNCHANGED flat
    /\ UNCHANGED <<ex_vars, scan, helper, env_vars, arg_vars, doc_status, doc_error, bd_jurisdiccion, bd_programas,
                   bd_metas, metas_staging, next_id, data_vars, hist_vars>>

\* the table holds rows of the document: with the unique constraints, the
\* insert of the same parsed rows is rejected
HoldsDoc(rows, doc) == \E i \in 1..Len(rows) : rows[i].doc = doc

\* insert_rows(table, rows) of a flat table; no rows, no call.
FlatInsert(t) ==
    /\ pc = Step("flat_insert", t)
    /\ \E ok \in BOOLEAN :
        IF parsed.flat_n = 0 THEN ok /\ Advance /\ UNCHANGED flat
        ELSE IF unique_keys /\ HoldsDoc(flat[t], doc_id)
        THEN ok /\ Throw(Exception("Error al insertar", t)) /\ UNCHANGED flat
        ELSE IF ok
        THEN /\ flat' = [flat EXCEPT ![t] =
                            GroupByDoc(@ \o [i \in 1..parsed.flat_n |->
                                                [doc |-> doc_id, k |-> i]], DocOrder)]
             /\ Advance
        ELSE /\ Throw(Exception("Error al insertar", t))
             /\ UNCHANGED flat
    /\ UNCHANGED <<ex_vars, scan, helper, env_vars, arg_vars, doc_status, doc_error, bd_jurisdiccion, bd_programas,
                   bd_metas, metas_staging, next_id, data_vars, hist_vars>>

\* Lines 127-144: juri_rows, then the delete of the document's jurisdictions.
JuriDelete ==
    /\ pc = Step("juri_delete", "")
    /\ juri_rows' = BuildJuriRows(parsed.jurisdicciones, doc_id, {}, <<>>)
    /\ \E ok \in BOOLEAN :
        LET gone == IdsWhere(bd_jurisdiccion, LAMBDA r : r.doc = doc_id)
            referenced == \E r \in Range(bd_programas) : r.juri \in gone
        IN IF ok
           THEN \E action \in FkChoices(referenced) :
                  LET res == DeleteJurisdicciones(bd_jurisdiccion, bd_programas,
                                                  bd_metas, gone, action)
                  IN /\ fk_action' = action
                     /\ IF res.rejected
                        THEN /\ Throw(Exception(FkViolation, "bd_jurisdiccion"))
                             /\ UNCHANGED <<bd_jurisdiccion, bd_programas, bd_metas>>
                        ELSE /\ bd_jurisdiccion' = res.juri
                             /\ bd_programas' = res.prog
                             /\ bd_metas' = res.metas
                             /\ Advance
           ELSE /\ Throw(Exception("Error al borrar", "bd_jurisdiccion"))
                /\ UNCHANGED <<bd_jurisdiccion, bd_programas, bd_metas, fk_action>>
    /\ UNCHANGED <<ex_vars, scan, helper, other, unique_keys, arg_vars, doc_status, doc_error,
                   metas_staging, flat, next_id, parsed, juri_map, prog_rows,
                   program_mapping, metas_rows, metas_unresolved, warnings, hist_vars>>

\* Line 145: insert_rows(bd_jurisdiccion, juri_rows)
JuriInsert ==
    /\ pc = Step("juri_insert", "")
    /\ \E ok \in BOOLEAN :
        IF juri_rows = <<>>
        THEN ok /\ Advance /\ UNCHANGED <<bd_jurisdiccion, next_id>>
        ELSE IF ok
        THEN /\ bd_jurisdiccion' = bd_jurisdiccion \o WithIds(juri_rows, next_id)
             /\ next_id' = next_id + Len(juri_rows)
             /\ Advance
        ELSE /\ Throw(Exception("Error al insertar", "bd_jurisdiccion"))
             /\ UNCHANGED <<bd_jurisdiccion, next_id>>
    /\ UNCHANGED <<ex_vars, scan, helper, env_vars, arg_vars, doc_status, doc_error, bd_programas, bd_metas,
                   metas_staging, flat, data_vars, hist_vars>>

\* Lines 147-177: the fetch of the document's jurisdictions, juri_map, and
\* the mapping of the parsed programs.
JuriFetch ==
    /\ pc = Step("juri_fetch", "")
    /\ \E ok \in BOOLEAN :
        IF ok
        THEN LET jmap == BuildJuriMap(FetchJurisdiccion(doc_id), EmptyMap)
                 mapped == MapProgramas(parsed.programas, jmap,
                                        [rows |-> <<>>, warnings |-> warnings])
             IN /\ juri_map' = jmap
                /\ prog_rows' = mapped.rows
                /\ warnings' = mapped.warnings
                /\ Advance
        ELSE /\ Throw(Exception("Error al consultar", "bd_jurisdiccion"))
             /\ UNCHANGED <<juri_map, prog_rows, warnings>>
    /\ UNCHANGED <<ex_vars, scan, helper, env_vars, arg_vars, store_vars, parsed, juri_rows, program_mapping,
                   metas_rows, metas_unresolved, hist_vars>>

\* Lines 178-181: `if juri_map:` delete the programs of those jurisdictions.
ProgDelete ==
    /\ pc = Step("prog_delete", "")
    /\ \E ok \in BOOLEAN :
        IF DOMAIN juri_map = {}
        THEN ok /\ Advance /\ UNCHANGED <<bd_programas, bd_metas, fk_action>>
        ELSE IF ok
        THEN LET gone == IdsWhere(bd_programas, LAMBDA r : r.juri \in Values(juri_map))
                 referenced == \E r \in Range(bd_metas) : r.prog \in gone
             IN \E action \in FkChoices(referenced) :
                  LET res == DeleteProgramas(bd_programas, bd_metas, gone, action)
                  IN /\ fk_action' = action
                     /\ IF res.rejected
                        THEN /\ Throw(Exception(FkViolation, "bd_programas"))
                             /\ UNCHANGED <<bd_programas, bd_metas>>
                        ELSE /\ bd_programas' = res.prog
                             /\ bd_metas' = res.metas
                             /\ Advance
        ELSE /\ Throw(Exception("Error al borrar", "bd_programas"))
             /\ UNCHANGED <<bd_programas, bd_metas, fk_action>>
    /\ UNCHANGED <<ex_vars, scan, helper, other, unique_keys, arg_vars, doc_status, doc_error, bd_jurisdiccion,
                   metas_staging, flat, next_id, data_vars, hist_vars>>

\* Line 182: insert_rows(bd_programas, prog_rows)
ProgInsert ==
    /\ pc = Step("prog_insert", "")
    /\ \E ok \in BOOLEAN :
        IF prog_rows = <<>>
        THEN ok /\ Advance /\ UNCHANGED <<bd_programas, next_id, written>>
        ELSE IF ok
        THEN LET rows == WithIds(prog_rows, next_id)
             IN /\ bd_programas' = bd_programas \o rows
                /\ next_id' = next_id + Len(rows)
                /\ written' = [written EXCEPT !.bd_programas = @ \o rows]
                /\ Advance
        ELSE /\ Throw(Exception("Error al insertar", "bd_programas"))
             /\ UNCHANGED <<bd_programas, next_id, written>>
    /\ UNCHANGED <<ex_vars, scan, helper, env_vars, arg_vars, doc_status, doc_error, bd_jurisdiccion, bd_metas,
                   metas_staging, flat, data_vars, was_processing>>

\* Lines 229-277: parse_metas_from_text, the fetch of the programs of the
\* document's jurisdictions, prog_by_key / prog_by_name, and the mapping of
\* the parsed goals.
ProgFetch ==
    /\ pc = Step("prog_fetch", "")
    /\ \E metas_raw \in SeqsUpTo(MetaSet, MaxGoals), ok \in BOOLEAN :
        /\ parsed' = [parsed EXCEPT !.metas = metas_raw]
        /\ IF ok
           THEN LET lookup == BuildProgLookup(FetchProgramas(Values(juri_map)),
                                              juri_map, EmptyMap)
                    mapped == MapMetas(metas_raw, lookup,
                                       [rows |-> <<>>, warnings |-> warnings])
                IN /\ program_mapping' = lookup
                   /\ metas_rows' = mapped.rows
                   /\ warnings' = mapped.warnings
                   /\ Advance
           ELSE /\ Throw(Exception("Error al consultar", "bd_programas"))
                /\ UNCHANGED <<program_mapping, metas_rows, warnings>>
    /\ UNCHANGED <<ex_vars, scan, helper, env_vars, arg_vars, store_vars, juri_rows, juri_map, prog_rows,
                   metas_unresolved, hist_vars>>

MetaProgIds(rows) == {rows[i].prog : i \in 1..Len(rows)}

\* Lines 279-285: `if metas_rows:` delete_rows(bd_metas, ID_Programa, ids)
MetasDelete ==
    /\ pc = Step("metas_delete", "")
    /\ \E ok \in BOOLEAN :
        IF metas_rows = <<>> THEN ok /\ Advance /\ UNCHANGED bd_metas
        ELSE IF ok
        THEN /\ bd_metas' = SelectSeq(bd_metas,
                                      LAMBDA r : r.prog \notin MetaProgIds(metas_rows))
             /\ Advance
        ELSE /\ Throw(Exception("Error al borrar", "bd_metas"))
             /\ UNCHANGED bd_metas
    /\ UNCHANGED <<ex_vars, scan, helper, env_vars, arg_vars, doc_status, doc_error, bd_jurisdiccion, bd_programas,
                   metas_staging, flat, next_id, data_vars, hist_vars>>

\* Line 286: insert_rows(bd_metas, metas_rows)
MetasInsert ==
    /\ pc = Step("metas_insert", "")
    /\ \E ok \in BOOLEAN :
        IF metas_rows = <<>> THEN ok /\ Advance /\ UNCHANGED <<bd_metas, written>>
        ELSE IF ok
        THEN /\ bd_metas' = bd_metas \o metas_rows
             /\ written' = [written EXCEPT !.bd_metas = @ \o metas_rows]
             /\ Advance
        ELSE /\ Throw(Exception("Error al insertar", "bd_metas"))
             /\ UNCHANGED <<bd_metas, written>>
    /\ UNCHANGED <<ex_vars, scan, helper, env_vars, arg_vars, doc_status, doc_error, bd_jurisdiccion, bd_programas,
                   metas_staging, flat, next_id, data_vars, was_processing>>

\* Lines 288-294: Prog_TieneMetas of the programs with goals; a failure of
\* the update becomes a warning.
TieneMetasUpdate ==
    /\ pc = Step("tienemetas_update", "")
    /\ \E ok \in BOOLEAN :
        IF metas_rows = <<>> THEN ok /\ UNCHANGED <<bd_programas, warnings>>
        ELSE IF ok
        THEN /\ bd_programas' =
                    [i \in 1..Len(bd_programas) |->
                        IF bd_programas[i].id \in MetaProgIds(metas_rows)
                        THEN [bd_programas[i] EXCEPT !.tiene_metas = TRUE]
                        ELSE bd_programas[i]]
             /\ UNCHANGED warnings
        ELSE /\ warnings' = Append(warnings,
                    [kind |-> "No se pudo actualizar Prog_TieneMetas.", name |-> ""])
             /\ UNCHANGED bd_programas
    /\ Advance
    /\ UNCHANGED <<ex_vars, scan, helper, env_vars, arg_vars, doc_status, doc_error, bd_jurisdiccion, bd_metas,
                   metas_staging, flat, next_id, parsed, juri_rows, juri_map,
                   prog_rows, program_mapping, metas_rows, metas_unresolved,
                   hist_vars>>

\* Lines 309-313: update_document_status(doc_id, "Procesado"), result ok.
MarkDone ==
    /\ pc = Step("mark_done", "")
    /\ \E ok \in BOOLEAN :
        IF ok
        THEN /\ SetStatus(doc_id, "Procesado", NoExc)
             /\ result' = [ok |-> TRUE, error |-> NoExc, returned |-> TRUE]
             /\ pc' = After(pc)
             /\ UNCHANGED <<exc, raised>>
        ELSE /\ Throw(Exception("Error al actualizar estado del documento", ""))
             /\ UNCHANGED <<doc_status, doc_error>>
    /\ UNCHANGED <<ex_vars, scan, helper, env_vars, arg_vars, bd_jurisdiccion, bd_programas, bd_metas, metas_staging,
                   flat, next_id, data_vars, hist_vars>>

\* Lines 315-321: `except Exception as e`: result["error"] = str(e), then
\* update_document_status(doc_id, "Error", error_msg=str(e)) inside
\* `try ... except Exception: pass`, then `return result`.
RunDocumentExcept ==
    /\ pc = Step("except", "")
    /\ result' = [ok |-> FALSE, error |-> exc, returned |-> TRUE]
    /\ \E ok \in BOOLEAN :
        IF doc_id = "" THEN ok /\ UNCHANGED <<doc_status, doc_error>>
        ELSE IF ok THEN SetStatus(doc_id, "Error", exc)
        ELSE UNCHANGED <<doc_status, doc_error>>
    /\ pc' = Step("returned", "")
    /\ UNCHANGED <<exc, raised>>
    /\ UNCHANGED <<ex_vars, scan, helper, env_vars, arg_vars, bd_jurisdiccion, bd_programas, bd_metas, metas_staging,
                   flat, next_id, data_vars, hist_vars>>

RunDocumentNext ==
    \/ FetchDocument \/ MarkProcessing \/ Download \/ ExtractParse
    \/ (\E t \in FlatTables : FlatDelete(t))
    \/ (\E t \in FlatTables : FlatInsert(t))
    \/ JuriDelete \/ JuriInsert \/ JuriFetch \/ ProgDelete \/ ProgInsert
    \/ ProgFetch \/ MetasDelete \/ MetasInsert \/ TieneMetasUpdate \/ MarkDone
    \/ RunDocumentExcept

-----------------------------------------------------------------------------
(* The LLM-driven orchestrators: run_single_shot (single_shot/pipeline.py),
   run_single_shot_xlsx (single_shot/pipeline_xlsx.py), main
   (ingest/run_ingest.py). The extractor is taken by its two outcomes, a
   payload or the error raised after the last retry; the lists of the payload
   are drawn where the orchestrator first reads them. *)

SingleShots == {"run_single_shot", "run_single_shot_xlsx"}
LlmOrchestrators == SingleShots \cup {"ingest_main"}

\* create_document: run_single_shot(_xlsx) creates the document when no
\* doc_id is given (and raises without the metadata); main always creates it,
\* with Estado 'iniciado'.
CreateDocument ==
    /\ pc = Step("create_doc", "")
    /\ \E ok \in BOOLEAN, metadata \in BOOLEAN :
        IF orch \in SingleShots /\ doc_id # ""
        THEN ok /\ metadata /\ Advance /\ UNCHANGED <<doc_id, doc_status>>
        ELSE IF orch \in SingleShots /\ ~metadata
        THEN /\ ok
             /\ Throw(Exception("Faltan metadatos para crear documento.", ""))
             /\ UNCHANGED <<doc_id, doc_status>>
        ELSE IF ok
        THEN /\ metadata
             /\ doc_id' = NewDoc
             /\ doc_status' = [doc_status EXCEPT ![NewDoc] =
                                  IF orch = "ingest_main" THEN "iniciado" ELSE "None"]
             /\ Advance
        ELSE /\ metadata
             /\ Throw(Exception("No se pudo crear BD_DocumentosCargados.", ""))
             /\ UNCHANGED <<doc_id, doc_status>>
    /\ UNCHANGED <<ex_vars, scan, helper, env_vars, orch, dry_run, agent, doc_error,
                   bd_jurisdiccion, bd_programas, bd_metas,
                   metas_staging, flat, next_id, data_vars, hist_vars>>

\* extract_pdf_single_shot / extract_xlsx_single_shot /
\* extract_jurisdicciones_programas: the payload, or the error after retries.
LlmExtract ==
    /\ pc = Step("extract", "")
    /\ \E ok \in BOOLEAN :
        IF ok
        THEN /\ \E js \in SeqsUpTo(PayloadJuriSet, MaxPayloadRows),
                   ms \in (IF orch = "run_single_shot" THEN MetasArrays ELSE {<<>>}) :
                  parsed' = [parsed EXCEPT !.jurisdicciones = js, !.metas = ms]
             /\ Advance
        ELSE /\ Throw(Exception("LLM fallo despues de reintentos", ""))
             /\ UNCHANGED parsed
    /\ UNCHANGED <<ex_vars, scan, helper, env_vars, arg_vars, store_vars, juri_rows, juri_map, prog_rows,
                   program_mapping, metas_rows, metas_unresolved, warnings, hist_vars>>

\* The test that keeps the first pass's goals.
SecondPassIgnored(metas_list, metas_count) == FALSE
\* run_single_shot: `len(metas_list) > metas_count`
SecondPassLarger(metas_list, metas_count) == Len(metas_list) > metas_count

\* run_single_shot: `metas_count = len(payload.get("bd_metas", []))` and
\* `if metas_count < 50: metas_only = extract_metas_only(...)`, a second
\* extractor call that can raise as the first.
MetasOnly ==
    /\ pc = Step("metas_only", "")
    /\ IF Len(parsed.metas) < MetasOnlyBelow
       THEN \E ok \in BOOLEAN :
              IF ok
              THEN /\ \E ms \in MetasArrays :
                        parsed' = [parsed EXCEPT !.metas_only =
                                      [called |-> TRUE, bd_metas |-> ms]]
                   /\ Advance
              ELSE /\ Throw(Exception("LLM fallo despues de reintentos", ""))
                   /\ UNCHANGED parsed
       ELSE Advance /\ UNCHANGED parsed
    /\ UNCHANGED <<ex_vars, scan, helper, env_vars, arg_vars, store_vars, juri_rows, juri_map,
                   prog_rows, program_mapping, metas_rows, metas_unresolved,
                   warnings, hist_vars>>

\* run_single_shot: `metas_list = metas_only.get("bd_metas", [])` and
\* `if len(metas_list) > metas_count: payload["bd_metas"] = metas_list`;
\* metas_only is not read again.
MetasReload ==
    /\ pc = Step("metas_reload", "")
    /\ IF /\ parsed.metas_only.called
          /\ SecondPassLarger(parsed.metas_only.bd_metas, Len(parsed.metas))
       THEN /\ parsed' = [parsed EXCEPT !.metas = parsed.metas_only.bd_metas,
                                        !.metas_only = NotCalled]
            /\ warnings' = Append(warnings,
                    [kind |-> "Metas recargadas en segunda pasada (metas only).",
                     name |-> ""])
       ELSE /\ parsed' = [parsed EXCEPT !.metas_only = NotCalled]
            /\ UNCHANGED warnings
    /\ Advance
    /\ UNCHANGED <<ex_vars, scan, helper, env_vars, arg_vars, store_vars, juri_rows, juri_map,
                   prog_rows, program_mapping, metas_rows, metas_unresolved,
                   hist_vars>>

\* table.insert(rows): every row is stored, under a new identifier.
PlainInsert(table, rows, nid) ==
    LET WithId == {i \in 1..Len(rows) : "id" \in DOMAIN rows[i]}
        stored == [i \in 1..Len(rows) |->
                      IF i \in WithId
                      THEN [rows[i] EXCEPT !.id = nid + Cardinality({k \in WithId : k < i})]
                      ELSE rows[i]]
    IN [table |-> table \o stored, next |-> nid + Cardinality(WithId), out |-> stored]

\* An upsert helper without the fallback.
NoInsertOn42P10 == FALSE
\* single_shot/supabase_io._upsert: `if getattr(exc, "code", None) ==
\* "42P10": table.insert(rows).execute()`. upsert_jurisdicciones,
\* upsert_programas and upsert_metas of ingest/supabase_io raise every
\* APIError but PGRST205, and _upsert_compat catches TypeError only.
InsertOn42P10 == orch \in SingleShots

\* What the upsert helper's call leaves: the store answers an on_conflict
\* that names no unique constraint with the error 42P10.
UpsertCall(t, table, rows, nid) ==
    IF unique_keys THEN Upsert(t, table, rows, nid, <<>>)
    ELSE PlainInsert(table, rows, nid)
\* The call ends without an exception: the store is reached (ok) and it
\* takes the rows.
UpsertDone(ok, t, rows) ==
    ok /\ (IF unique_keys THEN ~HasDuplicateKeys(t, rows) ELSE InsertOn42P10)
UpsertError(ok, t) ==
    Exception(IF ok /\ ~unique_keys THEN "42P10" ELSE "Error en upsert", t)

\* upsert_jurisdicciones(_map_juri(payload)) / _prep_juri_rows /
\* _upsert_compat("bd_jurisdiccion", ...)
JuriUpsert ==
    /\ pc = Step("juri_upsert", "")
    /\ LET rows == map_juri(parsed.jurisdicciones, doc_id)
           res == UpsertCall("bd_jurisdiccion", bd_jurisdiccion, rows, next_id)
       IN /\ juri_rows' = rows
          /\ \E ok \in BOOLEAN :
              IF rows = <<>>
              THEN ok /\ Advance /\ UNCHANGED <<bd_jurisdiccion, next_id>>
              ELSE IF UpsertDone(ok, "bd_jurisdiccion", rows)
              THEN /\ bd_jurisdiccion' = res.table
                   /\ next_id' = res.next
                   /\ Advance
              ELSE /\ Throw(UpsertError(ok, "bd_jurisdiccion"))
                   /\ UNCHANGED <<bd_jurisdiccion, next_id>>
    /\ UNCHANGED <<ex_vars, scan, helper, env_vars, arg_vars, doc_status, doc_error, bd_programas, bd_metas,
                   metas_staging, flat, parsed, juri_map, prog_rows,
                   program_mapping, metas_rows, metas_unresolved, warnings, hist_vars>>

\* fetch_jurisdicciones(doc_id), juri_map, _map_programas
SsJuriFetch ==
    /\ pc = Step("ss_juri_fetch", "")
    /\ \E ok \in BOOLEAN :
        IF ok
        THEN \E ps \in SeqsUpTo(PayloadProgSet, MaxPayloadRows) :
               LET jmap == JuriMapByCode(FetchJurisdiccion(doc_id), EmptyMap)
                   mapped == map_programas(ps, jmap,
                                           [rows |-> <<>>, warnings |-> warnings])
               IN /\ parsed' = [parsed EXCEPT !.programas = ps]
                  /\ juri_map' = jmap
                  /\ prog_rows' = mapped.rows
                  /\ warnings' = mapped.warnings
                  /\ Advance
        ELSE /\ Throw(Exception("Error al consultar", "bd_jurisdiccion"))
             /\ UNCHANGED <<parsed, juri_map, prog_rows, warnings>>
    /\ UNCHANGED <<ex_vars, scan, helper, env_vars, arg_vars, store_vars, juri_rows, program_mapping,
                   metas_rows, metas_unresolved, hist_vars>>

\* The conflict target of the program upsert: main keys programs by document.
ProgTarget == IF orch = "ingest_main" THEN "bd_programas_doc" ELSE "bd_programas"

\* upsert_programas(prog_rows); in main the rows are _prep_prog_rows(payload).
ProgUpsert ==
    /\ pc = Step("prog_upsert", "")
    /\ \E ps \in (IF orch = "ingest_main" THEN SeqsUpTo(PayloadProgSet, MaxPayloadRows)
                  ELSE {parsed.programas}), ok \in BOOLEAN :
        LET rows == IF orch = "ingest_main" THEN prep_prog_rows(ps, doc_id) ELSE prog_rows
            res == UpsertCall(ProgTarget, bd_programas, rows, next_id)
        IN /\ parsed' = [parsed EXCEPT !.programas = ps]
           /\ prog_rows' = rows
           /\ IF rows = <<>>
              THEN ok /\ Advance /\ UNCHANGED <<bd_programas, next_id, written>>
              ELSE IF UpsertDone(ok, ProgTarget, rows)
              THEN /\ bd_programas' = res.table
                   /\ next_id' = res.next
                   /\ written' = [written EXCEPT !.bd_programas = @ \o res.out]
                   /\ Advance
              ELSE /\ Throw(UpsertError(ok, "bd_programas"))
                   /\ UNCHANGED <<bd_programas, next_id, written>>
    /\ UNCHANGED <<ex_vars, scan, helper, env_vars, arg_vars, doc_status, doc_error, bd_jurisdiccion, bd_metas,
                   metas_staging, flat, juri_rows, juri_map, program_mapping,
                   metas_rows, metas_unresolved, warnings, was_processing>>

\* fetch_programas_for_juris(list(juri_map.values())) - no call without
\* jurisdictions - and _build_program_mapping; the payload's goals are read
\* from here on.
SsProgFetch ==
    /\ pc = Step("ss_prog_fetch", "")
    /\ \E ok \in BOOLEAN :
        IF ok
        THEN /\ \E ms \in (IF orch = "run_single_shot" THEN {parsed.metas}
                            ELSE SeqsUpTo(PayloadMetaSet, MaxGoals)) :
                  parsed' = [parsed EXCEPT !.metas = ms]
             /\ program_mapping' =
                    build_program_mapping(FetchProgramas(Values(juri_map)),
                                          juri_map, EmptyMap)
             /\ Advance
        ELSE /\ DOMAIN juri_map # {}
             /\ Throw(Exception("Error al consultar", "bd_programas"))
             /\ UNCHANGED <<parsed, program_mapping>>
    /\ UNCHANGED <<ex_vars, scan, helper, env_vars, arg_vars, store_vars, juri_rows, juri_map, prog_rows,
                   metas_rows, metas_unresolved, warnings, hist_vars>>

\* _create_programs_from_metas: `if rows: upsert_programas(rows)`
CreateProgramsFromMetas ==
    /\ pc = Step("create_progs", "")
    /\ LET rows == ProgramsFromMetas(parsed.metas, juri_map, {}, <<>>)
           res == UpsertCall("bd_programas", bd_programas, rows, next_id)
       IN \E ok \in BOOLEAN :
            IF rows = <<>>
            THEN ok /\ Advance /\ UNCHANGED <<bd_programas, next_id, written>>
            ELSE IF UpsertDone(ok, "bd_programas", rows)
            THEN /\ bd_programas' = res.table
                 /\ next_id' = res.next
                 /\ written' = [written EXCEPT !.bd_programas = @ \o res.out]
                 /\ Advance
            ELSE /\ Throw(UpsertError(ok, "bd_programas"))
                 /\ UNCHANGED <<bd_programas, next_id, written>>
    /\ UNCHANGED <<ex_vars, scan, helper, env_vars, arg_vars, doc_status, doc_error, bd_jurisdiccion, bd_metas,
                   metas_staging, flat, data_vars, was_processing>>

\* run_single_shot: `if created:` fetch the programs again and rebuild the
\* mapping; then, in both single-shot runs, _map_metas.
MapMetasStep ==
    /\ pc = Step("map_metas", "")
    /\ LET created == orch = "run_single_shot"
                      /\ ProgramsFromMetas(parsed.metas, juri_map, {}, <<>>) # <<>>
           mapping == IF created
                      THEN build_program_mapping(FetchProgramas(Values(juri_map)),
                                                 juri_map, EmptyMap)
                      ELSE program_mapping
           mapped == map_metas(parsed.metas, mapping,
                               [rows |-> <<>>, warnings |-> warnings,
                                unresolved |-> <<>>])
       IN \E ok \in BOOLEAN :
            IF ok
            THEN /\ program_mapping' = mapping
                 /\ metas_rows' = mapped.rows
                 /\ warnings' = mapped.warnings
                 /\ metas_unresolved' = mapped.unresolved
                 /\ Advance
            ELSE /\ created
                 /\ Throw(Exception("Error al consultar", "bd_programas"))
                 /\ UNCHANGED <<program_mapping, metas_rows, warnings, metas_unresolved>>
    /\ UNCHANGED <<ex_vars, scan, helper, env_vars, arg_vars, store_vars, parsed, juri_rows, juri_map,
                   prog_rows, hist_vars>>

\* main: fetch_programas_mapping(doc_id); the mapping extract_metas builds
\* from these rows.
FetchMapping ==
    /\ pc = Step("fetch_mapping", "")
    /\ \E ok \in BOOLEAN :
        IF ok
        THEN /\ program_mapping' =
                    ingest_build_program_mapping(FetchProgramasMapping(doc_id), EmptyMap)
             /\ Advance
        ELSE /\ Throw(Exception("Error al consultar", "bd_programas"))
             /\ UNCHANGED program_mapping
    /\ UNCHANGED <<ex_vars, scan, helper, env_vars, arg_vars, store_vars, parsed, juri_rows, juri_map,
                   prog_rows, metas_rows, metas_unresolved, warnings, hist_vars>>

\* main: extract_metas - the extractor's call, then the resolution of each
\* goal into resolved or unresolved.
ExtractMetasStep ==
    /\ pc = Step("extract_metas", "")
    /\ \E ok \in BOOLEAN :
        IF ok
        THEN \E ms \in SeqsUpTo(PayloadMetaSet, MaxGoals) :
               LET res == extract_metas(ms, program_mapping,
                                        [rows |-> <<>>, unresolved |-> <<>>])
               IN /\ parsed' = [parsed EXCEPT !.metas = ms]
                  /\ metas_rows' = res.rows
                  /\ metas_unresolved' = res.unresolved
                  /\ Advance
        ELSE /\ Throw(Exception("LLM fallo despues de reintentos", ""))
             /\ UNCHANGED <<parsed, metas_rows, metas_unresolved>>
    /\ UNCHANGED <<ex_vars, scan, helper, env_vars, arg_vars, store_vars, juri_rows, juri_map, prog_rows,
                   program_mapping, warnings, hist_vars>>

\* `if metas_unresolved:` log, and `if metas_staging_table:`
\* insert_metas_staging(table, metas_unresolved); the setting is the run's
\* configuration.
StagingInsert ==
    /\ pc = Step("staging", "")
    /\ \E ok \in BOOLEAN, metas_staging_table \in BOOLEAN :
        IF metas_unresolved = <<>> \/ ~metas_staging_table
        THEN ok /\ Advance /\ UNCHANGED metas_staging
        ELSE IF ok
        THEN /\ metas_staging' = metas_staging \o metas_unresolved
             /\ Advance
        ELSE /\ Throw(Exception("Error al insertar", "metas_staging"))
             /\ UNCHANGED metas_staging
    /\ UNCHANGED <<ex_vars, scan, helper, env_vars, arg_vars, doc_status, doc_error, bd_jurisdiccion,
                   bd_programas, bd_metas, flat, next_id, data_vars, hist_vars>>

\* upsert_metas(metas_rows) / _upsert_metas_by_key(_prep_metas_rows(...))
MetasUpsert ==
    /\ pc = Step("metas_upsert", "")
    /\ LET res == UpsertCall("bd_metas", bd_metas, metas_rows, next_id)
       IN \E ok \in BOOLEAN :
            IF metas_rows = <<>>
            THEN ok /\ Advance /\ UNCHANGED <<bd_metas, written>>
            ELSE IF UpsertDone(ok, "bd_metas", metas_rows)
            THEN /\ bd_metas' = res.table
                 /\ written' = [written EXCEPT !.bd_metas = @ \o res.out]
                 /\ Advance
            ELSE /\ Throw(UpsertError(ok, "bd_metas"))
                 /\ UNCHANGED <<bd_metas, written>>
    /\ UNCHANGED <<ex_vars, scan, helper, env_vars, arg_vars, doc_status, doc_error, bd_jurisdiccion,
                   bd_programas, metas_staging, flat, next_id, data_vars,
                   was_processing>>

\* The rows of one flat table the run holds for its document.
FlatRows(n) == [i \in 1..n |-> [doc |-> doc_id, k |-> i]]

\* upsert_cuentas / _gastos / _recursos / _movimientos / _sitpat: a row whose
\* key is stored replaces it, another row is inserted. The payload's flat
\* rows are read from the first of these calls on.
FlatUpsert(t) ==
    /\ pc = Step("flat_upsert", t)
    /\ \E ok \in BOOLEAN,
          n \in (IF t = "bd_cuentas" THEN 0..MaxFlatRows ELSE {parsed.flat_n}) :
        /\ parsed' = [parsed EXCEPT !.flat_n = n]
        /\ IF n = 0 THEN ok /\ Advance /\ UNCHANGED flat
           ELSE IF ok /\ (unique_keys \/ InsertOn42P10)
           THEN /\ flat' = [flat EXCEPT ![t] =
                               GroupByDoc(@ \o SelectSeq(FlatRows(n),
                                              LAMBDA r : \/ ~unique_keys
                                                         \/ r \notin Range(flat[t])),
                                          DocOrder)]
                /\ Advance
           ELSE /\ Throw(UpsertError(ok, t))
                /\ UNCHANGED flat
    /\ UNCHANGED <<ex_vars, scan, helper, env_vars, arg_vars, doc_status, doc_error, bd_jurisdiccion,
                   bd_programas, bd_metas, metas_staging, next_id, juri_rows,
                   juri_map, prog_rows, program_mapping, metas_rows,
                   metas_unresolved, warnings, hist_vars>>

\* update_document_status(doc_id, "completado", summary) and the return. The
\* single-shot update swallows the store's APIError (`except APIError: pass`),
\* another error propagates; main's update has no handler.
MarkCompleted ==
    /\ pc = Step("mark_completed", "")
    /\ \E outcome \in {"ok", "api_error", "error"} :
        IF outcome = "ok" \/ (outcome = "api_error" /\ orch \in SingleShots)
        THEN /\ doc_status' = IF outcome = "ok"
                              THEN [doc_status EXCEPT ![doc_id] = "completado"]
                              ELSE doc_status
             /\ result' = [ok |-> TRUE, error |-> NoExc, returned |-> TRUE]
             /\ pc' = After(pc)
             /\ UNCHANGED <<exc, raised>>
        ELSE /\ Throw(Exception("Error al actualizar estado del documento", ""))
             /\ UNCHANGED doc_status
    /\ UNCHANGED <<ex_vars, scan, helper, env_vars, arg_vars, doc_error, bd_jurisdiccion, bd_programas, bd_metas,
                   metas_staging, flat, next_id, data_vars, hist_vars>>

LlmNext ==
    \/ CreateDocument \/ LlmExtract \/ MetasOnly \/ MetasReload \/ JuriUpsert \/ SsJuriFetch
    \/ ProgUpsert \/ SsProgFetch \/ CreateProgramsFromMetas \/ MapMetasStep
    \/ FetchMapping \/ ExtractMetasStep \/ StagingInsert \/ MetasUpsert
    \/ (\E t \in FlatTables : FlatUpsert(t))
    \/ MarkCompleted

-----------------------------------------------------------------------------
(* ingest_rafam_xlsx: the steps of its own *)

\* Lines 581-657: the argument checks, read_excel and the four table
\* parsers; with dry_run the parsed data is returned and nothing is written.
\* An ingest that writes whatever dry_run is.
DryRunIgnored == FALSE
\* ingest_rafam_xlsx: `if dry_run: return {...}`
RxDryRun == dry_run

RxRead ==
    /\ pc = Step("rx_read", "")
    /\ \E ok \in BOOLEAN :
        IF doc_id = ""
        THEN /\ ok
             /\ Throw(Exception("id_documentoCargado esta vacio.", ""))
             /\ UNCHANGED parsed
        ELSE IF ~ok
        THEN /\ Throw(Exception("Faltan hojas requeridas", ""))
             /\ UNCHANGED parsed
        ELSE /\ \E lines \in SeqsUpTo(Table2Lines, MaxProgLines),
                   metas \in SeqsUpTo(MetaSet, MaxGoals), n \in 0..MaxFlatRows :
                  parsed' = [jurisdicciones |-> Table2Jurisdicciones(lines, {}, <<>>),
                             programas |-> RxProgramas(lines, metas),
                             metas |-> metas, flat_n |-> n,
                             metas_only |-> NotCalled]
             /\ IF RxDryRun
                THEN /\ pc' = Step("returned", "dry_run")
                     /\ result' = [ok |-> TRUE, error |-> NoExc, returned |-> TRUE]
                     /\ UNCHANGED <<exc, raised>>
                ELSE Advance
    /\ UNCHANGED <<ex_vars, scan, helper, env_vars, arg_vars, store_vars, juri_rows, juri_map, prog_rows,
                   program_mapping, metas_rows, metas_unresolved, warnings, hist_vars>>

\* Lines 686-704: the fetch of the document's jurisdictions, juri_map, and
\* programas_db.
RxJuriFetch ==
    /\ pc = Step("rx_juri_fetch", "")
    /\ \E ok \in BOOLEAN :
        IF ok
        THEN LET jmap == RxJuriMap(FetchJurisdiccion(doc_id), EmptyMap)
                 mapped == RxMapProgramas(parsed.programas, jmap,
                                          [rows |-> <<>>, warnings |-> warnings])
             IN /\ juri_map' = jmap
                /\ prog_rows' = mapped.rows
                /\ warnings' = mapped.warnings
                /\ Advance
        ELSE /\ Throw(Exception("Error al consultar", "bd_jurisdiccion"))
             /\ UNCHANGED <<juri_map, prog_rows, warnings>>
    /\ UNCHANGED <<ex_vars, scan, helper, env_vars, arg_vars, store_vars, parsed, juri_rows, program_mapping,
                   metas_rows, metas_unresolved, hist_vars>>

\* Lines 714-754: `if juri_map:` fetch the programs, prog_map_db, metas_db.
RxProgFetch ==
    /\ pc = Step("rx_prog_fetch", "")
    /\ \E ok \in BOOLEAN :
        IF ok
        THEN LET prog_map_db == RxProgMap(FetchProgramas(Values(juri_map)),
                                          juri_map, EmptyMap)
                 mapped == RxMapMetas(parsed.metas, prog_map_db,
                                      [rows |-> <<>>, warnings |-> warnings])
             IN /\ program_mapping' = prog_map_db
                /\ metas_rows' = mapped.rows
                /\ warnings' = mapped.warnings
                /\ Advance
        ELSE /\ DOMAIN juri_map # {}
             /\ Throw(Exception("Error al consultar", "bd_programas"))
             /\ UNCHANGED <<program_mapping, metas_rows, warnings>>
    /\ UNCHANGED <<ex_vars, scan, helper, env_vars, arg_vars, store_vars, parsed, juri_rows, juri_map,
                   prog_rows, metas_unresolved, hist_vars>>

\* Lines 781-801: the result with its metrics.
RxReturn ==
    /\ pc = Step("rx_return", "")
    /\ pc' = After(pc)
    /\ result' = [ok |-> TRUE, error |-> NoExc, returned |-> TRUE]
    /\ UNCHANGED <<exc, raised>>
    /\ UNCHANGED <<ex_vars, scan, helper, env_vars, arg_vars, store_vars, data_vars, hist_vars>>

RxNext == RxRead \/ RxJuriFetch \/ RxProgFetch \/ RxReturn

-----------------------------------------------------------------------------
(* agents/supabase_agent.py: cleanup_orphan_records, reset_document_data *)

\* The table_name arguments explored: two configured tables and one that
\* config.tables does not have.
CleanupTables == {"bd_programas", "bd_jurisdiccion", "bd_x"}

\* find_orphan_records over the table's foreign keys, then
\* `orphan_ids = list(set(o[pk] for o in all_orphans))`: the rows whose
\* foreign key has a value that no row of the parent table has.
OrphanIds(table_name) ==
    LET juri_ids == {j.id : j \in Range(bd_jurisdiccion)}
    IN CASE table_name = "bd_programas" ->
              IdsWhere(bd_programas, LAMBDA r : r.juri # NoId /\ r.juri \notin juri_ids)
         [] table_name = "bd_jurisdiccion" ->
              IdsWhere(bd_jurisdiccion,
                       LAMBDA r : r.doc # "" /\ doc_status[r.doc] = "absent")
         [] OTHER -> {}

\* The operation returns its dict: {"status": status, ...}.
AgentReturn(status) ==
    /\ pc' = Step("agent_done", status)
    /\ result' = [ok |-> status # "error", error |-> NoExc, returned |-> TRUE]
    /\ UNCHANGED <<exc, raised>>

\* cleanup_orphan_records up to `if dry_run: return {"status": "preview"}`
FindOrphans ==
    /\ pc = Step("find_orphans", "")
    /\ \E table_name \in CleanupTables, ok \in BOOLEAN :
        IF table_name = "bd_x"
        THEN /\ ok
             /\ Throw(Exception("Tabla no configurada", table_name))
             /\ UNCHANGED agent
        ELSE IF ~ok
        THEN /\ Throw(Exception("Error al consultar", table_name))
             /\ UNCHANGED agent
        ELSE IF OrphanIds(table_name) = {}
        THEN AgentReturn("ok") /\ UNCHANGED agent
        ELSE IF dry_run
        THEN AgentReturn("preview") /\ UNCHANGED agent
        ELSE /\ agent' = [agent EXCEPT !.table_name = table_name,
                                       !.orphan_ids = OrphanIds(table_name)]
             /\ Advance
    /\ UNCHANGED <<ex_vars, scan, helper, env_vars, orch, doc_id, dry_run, store_vars,
                   data_vars, hist_vars>>

\* cleanup_orphan_records: delete_rows(table_name, pk, orphan_ids) inside
\* `try: ... except Exception`, which returns {"status": "error"}.
DeleteOrphans ==
    /\ pc = Step("delete_orphans", "")
    /\ \E ok \in BOOLEAN :
        LET gone == agent.orphan_ids
            programs == agent.table_name = "bd_programas"
            referenced ==
                IF programs THEN \E r \in Range(bd_metas) : r.prog \in gone
                ELSE \E r \in Range(bd_programas) : r.juri \in gone
        IN \E action \in FkChoices(ok /\ referenced) :
             LET del == IF programs
                        THEN [juri |-> bd_jurisdiccion] @@
                             DeleteProgramas(bd_programas, bd_metas, gone, action)
                        ELSE DeleteJurisdicciones(bd_jurisdiccion, bd_programas,
                                                  bd_metas, gone, action)
                 done == ok /\ ~del.rejected
             IN /\ fk_action' = action
                /\ bd_jurisdiccion' = IF done THEN del.juri ELSE bd_jurisdiccion
                /\ bd_programas' = IF done THEN del.prog ELSE bd_programas
                /\ bd_metas' = IF done THEN del.metas ELSE bd_metas
                /\ AgentReturn(IF done THEN "ok" ELSE "error")
    /\ UNCHANGED <<ex_vars, scan, helper, other, unique_keys, arg_vars, doc_status, doc_error,
                   metas_staging, flat, next_id, data_vars, hist_vars>>

\* count_records_by_document: the count of the document's rows per table,
\* -1 for a table whose query failed.
CountOf(t, doc) ==
    IF t = "bd_jurisdiccion" THEN Len(FetchJurisdiccion(doc))
    ELSE Len(SelectSeq(flat[t], LAMBDA r : r.doc = doc))

\* reset_document_data up to `if dry_run: return {"status": "preview"}`
CountRecords ==
    /\ pc = Step("count_records", "")
    /\ \E failed \in {{}} \cup {{t} : t \in Range(ResetTables)} :
        IF dry_run
        THEN AgentReturn("preview") /\ UNCHANGED agent
        ELSE /\ agent' = [agent EXCEPT !.counts =
                             [t \in Range(ResetTables) |->
                                 IF t \in failed THEN 0 - 1 ELSE CountOf(t, doc_id)]]
             /\ Advance
    /\ UNCHANGED <<ex_vars, scan, helper, env_vars, orch, doc_id, dry_run, store_vars,
                   data_vars, hist_vars>>

\* reset_document_data: `if counts.get(table, 0) > 0:
\* delete_rows_by_filters(table, {"ID_DocumentoCargado": doc_id})`, inside
\* `try: ... except Exception`, which returns {"status": "error"}.
ResetDelete(t) ==
    /\ pc = Step("reset_delete", t)
    /\ \E ok \in BOOLEAN :
        LET skip == agent.counts[t] <= 0
            juri == t = "bd_jurisdiccion"
            gone == IdsWhere(bd_jurisdiccion, LAMBDA r : r.doc = doc_id)
            referenced == \E r \in Range(bd_programas) : r.juri \in gone
        IN \E action \in FkChoices(~skip /\ ok /\ juri /\ referenced) :
             LET del == DeleteJurisdicciones(bd_jurisdiccion, bd_programas,
                                             bd_metas, gone, action)
                 done == ~skip /\ ok /\ ~(juri /\ del.rejected)
             IN /\ skip => ok
                /\ fk_action' = action
                /\ flat' = IF done /\ ~juri
                           THEN [flat EXCEPT ![t] = DeleteByDoc(@, doc_id)]
                           ELSE flat
                /\ bd_jurisdiccion' = IF done /\ juri THEN del.juri ELSE bd_jurisdiccion
                /\ bd_programas' = IF done /\ juri THEN del.prog ELSE bd_programas
                /\ bd_metas' = IF done /\ juri THEN del.metas ELSE bd_metas
                /\ IF skip \/ done THEN Advance ELSE AgentReturn("error")
    /\ UNCHANGED <<ex_vars, scan, helper, other, unique_keys, arg_vars, doc_status, doc_error,
                   metas_staging, next_id, data_vars, hist_vars>>

\* reset_document_data: `return {"status": "ok", "deleted": deleted}`
ResetReturn ==
    /\ pc = Step("reset_return", "")
    /\ AgentReturn("ok")
    /\ UNCHANGED <<ex_vars, scan, helper, env_vars, arg_vars, store_vars, data_vars, hist_vars>>

AgentNext ==
    \/ FindOrphans \/ DeleteOrphans \/ CountRecords
    \/ (\E t \in Range(ResetTables) : ResetDelete(t))
    \/ ResetReturn

OrNext == RunDocumentNext \/ LlmNext \/ RxNext \/ AgentNext

\* No orchestrator runs: the store as seeded, nothing in progress.
OrIdle ==
    /\ dry_run = FALSE
    /\ agent = AgentIdle
    /\ orch = "none"
    /\ pc = Step("idle", "")
    /\ doc_id = ""
    /\ doc_status = InitialStatus
    /\ doc_error = [d \in Docs |-> NoExc]
    /\ bd_jurisdiccion = <<>>
    /\ bd_programas = <<>>
    /\ bd_metas = <<>>
    /\ metas_staging = <<>>
    /\ flat = [t \in FlatTables |-> <<>>]
    /\ next_id = 1
    /\ parsed = EmptyParsed
    /\ juri_rows = <<>>
    /\ juri_map = EmptyMap
    /\ prog_rows = <<>>
    /\ program_mapping = EmptyMap
    /\ metas_rows = <<>>
    /\ metas_unresolved = <<>>
    /\ warnings = <<>>
    /\ exc = NoExc
    /\ result = NoResultYet
    /\ raised = NoExc
    /\ was_processing = FALSE
    /\ written = EmptyWritten
    /\ fk_action = "unobserved"
    /\ other = OtherIdle


-----------------------------------------------------------------------------
(* Two runs at once: run_document on d1, as above, and a second run_document
   on the ingested document d2 with a fixed input, its store calls taken one
   at a time in the order of runner.py and interleaved with the first run's.
   The second run's calls succeed unless a foreign key rejects a delete. *)



\* The steps of run_document that call the store.
OtherProgram ==
    SelectSeq(RunDocumentProgram,
              LAMBDA s : s.op \notin {"fetch_doc", "download", "extract_parse", "returned"})
OtherDone == Len(OtherProgram) + 1
OtherFailed == Len(OtherProgram) + 2

\* The store and the second run's locals, as one record.
Cur ==
    [flat |-> flat, juri |-> bd_jurisdiccion, prog |-> bd_programas,
     metas |-> bd_metas, next |-> next_id, status |-> doc_status, loc |-> other]

\* The parents the second run's next delete removes are referenced.
OtherReferenced(s) ==
    CASE s.op = "juri_delete" ->
            \E r \in Range(bd_programas) :
                r.juri \in IdsWhere(bd_jurisdiccion, LAMBDA j : j.doc = other.doc)
      [] s.op = "prog_delete" ->
            \E r \in Range(bd_metas) :
                r.prog \in IdsWhere(bd_programas,
                                    LAMBDA x : x.juri \in Values(other.juri_map))
      [] OTHER -> FALSE

\* The `except` of run_document for the second run: status 'Error'.
OtherFails == [Cur EXCEPT !.status[other.doc] = "Error", !.loc.pc = OtherFailed]

\* One store call of the second run: the store and its locals after it.
OtherEffect(s, action) ==
    CASE s.op = "mark_processing" -> [Cur EXCEPT !.status[other.doc] = "Procesando"]
      [] s.op = "flat_delete" -> [Cur EXCEPT !.flat[s.t] = DeleteByDoc(@, other.doc)]
      [] s.op = "flat_insert" ->
            IF unique_keys /\ HoldsDoc(flat[s.t], other.doc) THEN OtherFails
            ELSE
            [Cur EXCEPT !.flat[s.t] =
                GroupByDoc(@ \o [i \in 1..other.input.flat_n |->
                                    [doc |-> other.doc, k |-> i]], DocOrder)]
      [] s.op = "juri_delete" ->
            LET res == DeleteJurisdicciones(bd_jurisdiccion, bd_programas, bd_metas,
                           IdsWhere(bd_jurisdiccion, LAMBDA j : j.doc = other.doc), action)
            IN IF res.rejected THEN OtherFails
               ELSE [Cur EXCEPT !.juri = res.juri, !.prog = res.prog, !.metas = res.metas]
      [] s.op = "juri_insert" ->
            LET rows == BuildJuriRows(other.input.jurisdicciones, other.doc, {}, <<>>)
            IN [Cur EXCEPT !.juri = @ \o WithIds(rows, next_id),
                           !.next = @ + Len(rows)]
      [] s.op = "juri_fetch" ->
            LET jmap == BuildJuriMap(FetchJurisdiccion(other.doc), EmptyMap)
            IN [Cur EXCEPT !.loc.juri_map = jmap,
                           !.loc.prog_rows =
                               MapProgramas(other.input.programas, jmap,
                                            [rows |-> <<>>, warnings |-> <<>>]).rows]
      [] s.op = "prog_delete" ->
            LET res == DeleteProgramas(bd_programas, bd_metas,
                           IdsWhere(bd_programas,
                                    LAMBDA x : x.juri \in Values(other.juri_map)), action)
            IN IF DOMAIN other.juri_map = {} THEN Cur
               ELSE IF res.rejected THEN OtherFails
               ELSE [Cur EXCEPT !.prog = res.prog, !.metas = res.metas]
      [] s.op = "prog_insert" ->
            [Cur EXCEPT !.prog = @ \o WithIds(other.prog_rows, next_id),
                        !.next = @ + Len(other.prog_rows)]
      [] s.op = "prog_fetch" ->
            LET lookup == BuildProgLookup(FetchProgramas(Values(other.juri_map)),
                                          other.juri_map, EmptyMap)
            IN [Cur EXCEPT !.loc.metas_rows =
                               MapMetas(other.input.metas, lookup,
                                        [rows |-> <<>>, warnings |-> <<>>]).rows]
      [] s.op = "metas_delete" ->
            [Cur EXCEPT !.metas =
                IF other.metas_rows = <<>> THEN @
                ELSE SelectSeq(@, LAMBDA r : r.prog \notin MetaProgIds(other.metas_rows))]
      [] s.op = "metas_insert" -> [Cur EXCEPT !.metas = @ \o other.metas_rows]
      [] s.op = "tienemetas_update" ->
            [Cur EXCEPT !.prog =
                [i \in 1..Len(@) |->
                    IF @[i].id \in MetaProgIds(other.metas_rows)
                    THEN [@[i] EXCEPT !.tiene_metas = TRUE] ELSE @[i]]]
      [] OTHER -> [Cur EXCEPT !.status[other.doc] = "Procesado"]

\* The second run takes its next step.
OtherRunStep ==
    /\ other.pc \in 1..Len(OtherProgram)
    /\ LET s == OtherProgram[other.pc]
       IN \E action \in FkChoices(OtherReferenced(s)) :
            LET new == OtherEffect(s, action)
            IN /\ fk_action' = action
               /\ flat' = new.flat
               /\ bd_jurisdiccion' = new.juri
               /\ bd_programas' = new.prog
               /\ bd_metas' = new.metas
               /\ next_id' = new.next
               /\ doc_status' = new.status
               /\ other' = IF new.loc.pc = OtherFailed THEN new.loc
                           ELSE [new.loc EXCEPT !.pc = @ + 1]
    /\ UNCHANGED <<ex_vars, scan, helper, arg_vars, pc, doc_error, metas_staging, local_vars,
                   hist_vars, unique_keys>>

\* What the first run parsed from its document; its jurisdiction J1 has the
\* code of the other document's jurisdiction.
ConcInputs ==
    {[EmptyParsed EXCEPT !.jurisdicciones = parse_programas_from_text(lines).jurisdicciones,
                         !.programas = parse_programas_from_text(lines).programas,
                         !.flat_n = 1] :
        lines \in {<<ProgLine("coded", "J1", "01", "Salud")>>,
                   <<ProgLine("coded", "J1", "01", "Salud"),
                     ProgLine("coded", "J2", "01", "obras")>>}}

\* run_document on d1 has parsed its document and is about to write, as
\* run_document on d2 starts.
InitConc ==
    /\ unique_keys = TRUE
    /\ dry_run = FALSE
    /\ agent = AgentIdle
    /\ orch = "run_document"
    /\ doc_id = "d1"
    /\ pc = Step("flat_delete", "bd_recursos")
    /\ parsed \in ConcInputs
    /\ doc_status = [InitialStatus EXCEPT !["d1"] = "Procesando"]
    /\ doc_error = [d \in Docs |-> NoExc]
    /\ bd_jurisdiccion = SeedJurisdiccion
    /\ bd_programas = SeedProgramas
    /\ bd_metas = SeedMetas
    /\ metas_staging = <<>>
    /\ flat = SeedFlat
    /\ next_id = SeedNextId
    /\ juri_rows = <<>>
    /\ juri_map = EmptyMap
    /\ prog_rows = <<>>
    /\ program_mapping = EmptyMap
    /\ metas_rows = <<>>
    /\ metas_unresolved = <<>>
    /\ warnings = <<>>
    /\ exc = NoExc
    /\ result = NoResultYet
    /\ raised = NoExc
    /\ was_processing = TRUE
    /\ written = EmptyWritten
    /\ fk_action = "unobserved"
    /\ other = [OtherIdle EXCEPT !.pc = 1]
    /\ ExIdle
    /\ scan = ScanIdle
    /\ helper = HelperIdle

ConcNext ==
    \/ (\E t \in FlatTables : FlatDelete(t))
    \/ (\E t \in FlatTables : FlatInsert(t))
    \/ JuriDelete \/ JuriInsert \/ JuriFetch \/ ProgDelete \/ ProgInsert
    \/ ProgFetch \/ MetasDelete \/ MetasInsert \/ TieneMetasUpdate \/ MarkDone
    \/ RunDocumentExcept
    \/ OtherRunStep

-----------------------------------------------------------------------------
(***************************************************************************)
(* The deterministic parsers (pipeline/parsers).  Each of them is a loop   *)
(* over the lines of the text; `s` below is one invocation: the line the   *)
(* loop is at, the locals, the rows and the warnings collected so far.     *)
(***************************************************************************)
\* None, where the code keeps a str or None, and where it keeps a float or None
None == "None"
NoneFloat == [m |-> 0, d |-> 0 - 1]

Parsers == {"recursos", "gastos", "programas", "metas", "movimientos", "cuentas", "sitpat"}

\* the locals of a parser before its loop
Locals(parser, text) ==
    [parser |-> parser, text |-> text, i |-> 1, status |-> "loop",
     in_section |-> FALSE, rows |-> <<>>, warnings |-> <<>>,
     tipo_actual |-> None, juri_actual |-> None, current_group |-> None,
     jurisdicciones |-> <<>>, current_juri |-> None, current_prog_code |-> None,
     current_prog_name |-> None, pending_meta |-> <<>>, found |-> <<>>]

\* continue, break, and an exception leaving the loop
Continue(s) == [s EXCEPT !.i = @ + 1]
\* The break left out.
BreakLeftOut(s) == [s EXCEPT !.i = @ + 1]
Break(s) == [s EXCEPT !.i = @ + 1, !.status = "break"]
Raise(s) == [s EXCEPT !.i = @ + 1, !.status = "raised"]
Warn(s, msg) == [s EXCEPT !.warnings = Append(@, msg)]
Emit(s, row) == [s EXCEPT !.rows = Append(@, row)]
Quoted(prefix, line) == prefix \o ": '" \o line \o "'"

\* _is_total_row (recursos.py, gastos.py, programas.py)
is_total_row(name) ==
    LET Total(n) == StartsWith(n, "total") \/ Contains(n, "total general")
    IN  Total(Lower(normalize_name(name)))

\* seq[-k] in Python
FromEnd(seq, k) == seq[Len(seq) - k + 1]

\* ---- recursos.py
recursos_SECTION_START == "evolucion de los recursos"
recursos_SECTION_END_KEYWORDS ==
    {"evolucion de los gastos", "evolucion del gasto", "estado de ejecucion del gasto",
     "estado de ejecucion de gastos", "evolucion de gastos por objeto",
     "evolucion de gastos por programa", "evolucion de las principales metas",
     "movimientos de tesoreria", "estado de situacion patrimonial",
     "cuenta ahorro inversion financiamiento"}
recursos_IsStart(low) ==
    \/ Contains(low, recursos_SECTION_START)
    \/ Contains(low, "evolucion") /\ Contains(low, "recursos")

\* the phrases of _RIGHT_COL_RE; on a normalized line \s+ is one space
RIGHT_COL ==
    {"cuenta ahorro", "ahorro corriente", "gastos corrientes", "gastos de capital",
     "resultado financiero", "ingresos totales", "gastos totales",
     "fuentes financieras", "aplicaciones financieras"}
\* the length of the run of characters of `set` at s[i-1:]
RECURSIVE RunOf(_, _, _)
RunOf(s, i, set) == IF Ch(s, i) \in set THEN 1 + RunOf(s, i + 1, set) ELSE 0
\* _ROMAN_RIGHT_RE.match(line): ^\s*[ivx]+\. ignoring case
RomanRight(line) ==
    LET Dot(a, r) == r >= 1 /\ Ch(line, a + r + 1) = "."
        Numeral(a) == Dot(a, RunOf(line, a + 1, {"i", "v", "x", "I", "V", "X"}))
    IN  Numeral(RunOf(line, 1, WhiteSpace))
\* _ROMAN_INLINE_RE.search(line): the start of the first \b[IVX]+\. , or 0
RomanInline(line) ==
    LET Dot(i, r) == r >= 1 /\ Ch(line, i + r) = "."
    IN  Least0({i \in 1..Len(line) :
                   Boundary(line, i) /\ Dot(i, RunOf(line, i, {"I", "V", "X"}))})
\* _RIGHT_COL_RE.search(line): the start of the first phrase, or 0
RightCol(line) ==
    LET First(low) == Least0({Find(low, p) : p \in RIGHT_COL} \ {0})
    IN  First(Lower(line))
split_left_column(line) ==
    LET Left(roman, right) ==
            IF roman # 0 THEN Strip(Slice(line, 1, roman - 1))
            ELSE IF right # 0 THEN Strip(Slice(line, 1, right - 1))
            ELSE line
    IN  Left(RomanInline(line), RightCol(line))
is_right_column_line(line) ==
    LET Right(low) ==
            \/ Contains(low, "cuenta ahorro inversion financiamiento")
            \/ Contains(low, "resultado financiero")
    IN  RomanRight(line) \/ Right(normalize_key(line))

\* normalize_name(line[:idx]) if idx > 0 else normalize_name(line), idx = line.find(token)
NameBefore(line, token) ==
    LET Before(idx) == normalize_name(IF idx > 1 THEN Slice(line, 1, idx - 1) ELSE line)
    IN  Before(Find(line, token))

\* `low.startswith("1.") and "presupuest" in low`, and the same with "2."
\* and "extrapresupuest" (recursos.py, gastos.py)
NoHeader(low) == FALSE
IsPresupHeader(low) == StartsWith(low, "1.") /\ Contains(low, "presupuest")
IsExtraHeader(low) == StartsWith(low, "2.") /\ Contains(low, "extrapresupuest")

recursos_Body(s, full) ==
    LET Three(t, line, vig, dev, per, name) ==
            IF ValueError \in {vig, dev, per} THEN Raise(t)
            ELSE IF is_total_row(name) THEN Continue(t)
            ELSE IF t.tipo_actual = None
                 THEN Continue(Warn(t, Quoted("Fila sin tipo detectado", line)))
            ELSE Continue(Emit(t,
                     [Rec_Tipo |-> t.tipo_actual, Rec_Nombre |-> name,
                      Rec_Categoria |-> name, Rec_Vigente |-> vig,
                      Rec_Devengado |-> dev, Rec_Percibido |-> per]))
        One(t, per, name) ==
            IF per = ValueError THEN Raise(t)
            ELSE IF is_total_row(name) THEN Continue(t)
            ELSE Continue(Emit(t,
                     [Rec_Tipo |-> t.tipo_actual, Rec_Nombre |-> name,
                      Rec_Categoria |-> name, Rec_Vigente |-> NoneFloat,
                      Rec_Devengado |-> NoneFloat, Rec_Percibido |-> per]))
        Amounts(t, line, tipo_line, amounts) ==
            IF Len(amounts) >= 3
            THEN Three(t, line, parse_amount_ar(amounts[1]), parse_amount_ar(amounts[2]),
                       parse_amount_ar(amounts[3]), NameBefore(line, amounts[1]))
            ELSE IF Len(amounts) = 1 /\ tipo_line /\ t.tipo_actual = "Presupuestario"
            THEN Continue(t)
            ELSE IF Len(amounts) = 1 /\ t.tipo_actual = "Extrapresupuestario"
            THEN One(t, parse_amount_ar(amounts[1]),
                     IF tipo_line THEN t.tipo_actual ELSE NameBefore(line, amounts[1]))
            ELSE IF Len(amounts) > 0 /\ Len(amounts) # 3
            THEN Continue(Warn(t, Quoted("Fila con cantidad de importes inesperada", line)))
            ELSE Continue(t)
        Tipo(line, presup, extra) ==
            Amounts([s EXCEPT !.tipo_actual = IF extra THEN "Extrapresupuestario"
                                              ELSE IF presup THEN "Presupuestario" ELSE @],
                    line, presup \/ extra, find_amounts(line))
        Keyed(line, low) ==
            Tipo(line, IsPresupHeader(low), IsExtraHeader(low))
        Left(line) == IF line = "" THEN Continue(s) ELSE Keyed(line, normalize_key(line))
    IN  IF is_right_column_line(full) THEN Continue(s) ELSE Left(split_left_column(full))

\* one iteration of parse_recursos_from_text's loop
recursos_Line(s, raw) ==
    LET Keyed(line, low) ==
            IF ~s.in_section
            THEN Continue([s EXCEPT !.in_section = recursos_IsStart(low)])
            ELSE IF \E k \in recursos_SECTION_END_KEYWORDS : Contains(low, k) THEN Break(s)
            ELSE recursos_Body(s, line)
        Named(line) == IF line = "" THEN Continue(s) ELSE Keyed(line, normalize_key(line))
    IN  Named(normalize_name(raw))

\* ---- gastos.py
gastos_SECTION_START == "evolucion de gastos por objeto"
gastos_SECTION_END_KEYWORDS == {"evolucion de gastos por programa", "evolucion de los recursos"}
gastos_IsStart(low) == Contains(low, gastos_SECTION_START)

\* the five amounts amounts[-5] .. amounts[-1], parsed
LastFive(amounts) == [k \in 1..5 |-> parse_amount_ar(FromEnd(amounts, 6 - k))]

gastos_Body(s, line) ==
    LET Five(five, name) ==
            IF \E k \in 1..5 : five[k] = ValueError THEN Raise(s)
            ELSE IF is_total_row(name) THEN Continue(s)
            ELSE IF s.tipo_actual = None
                 THEN Continue(Warn(s, Quoted("Fila sin tipo detectado", line)))
            ELSE Continue(Emit(s,
                     [Gasto_Categoria |-> s.tipo_actual, Gasto_Objeto |-> name,
                      Gasto_Vigente |-> five[1], Gasto_Preventivo |-> five[2],
                      Gasto_Compromiso |-> five[3], Gasto_Devengado |-> five[4],
                      Gasto_Pagado |-> five[5]]))
        Amounts(amounts) ==
            IF Len(amounts) >= 5 THEN Five(LastFive(amounts), normalize_name(AmountSub(line)))
            ELSE Continue(s)
        Keyed(low) ==
            IF IsPresupHeader(low)
            THEN Continue([s EXCEPT !.tipo_actual = "Presupuestarios"])
            ELSE IF IsExtraHeader(low)
            THEN Continue([s EXCEPT !.tipo_actual = "Extrapresupuestarios"])
            ELSE Amounts(find_amounts(line))
    IN  Keyed(normalize_key(line))

\* one iteration of parse_gastos_objeto_from_text's loop
gastos_Line(s, raw) ==
    LET Keyed(line, low) ==
            IF ~s.in_section
            THEN Continue([s EXCEPT !.in_section = gastos_IsStart(low)])
            ELSE IF \E k \in gastos_SECTION_END_KEYWORDS : Contains(low, k) THEN Break(s)
            ELSE gastos_Body(s, line)
        Named(line) == IF line = "" THEN Continue(s) ELSE Keyed(line, normalize_key(line))
    IN  Named(normalize_name(raw))

\* ---- programas.py
programas_SECTION_START == "evolucion de gastos por programa"
programas_SECTION_END_KEYWORDS ==
    {"evolucion de los recursos", "evolucion de gastos por objeto",
     "evolucion de las principales metas", "movimientos de tesoreria",
     "estado de situacion patrimonial", "situacion economico-financiera"}
programas_IsStart(low) == Contains(low, programas_SECTION_START)

(***************************************************************************)
(* _CODE_LINE_RE = ^(\d{4,})\s*-?\s*(\d{1,3})\s+(.+)$ matched against a    *)
(* line: <<>> when it does not match, else the three groups.  A way to     *)
(* match is <<k, a, h, b, d, c>>: k digits, a blanks, h hyphens (0 or 1),  *)
(* b blanks, d digits, c blanks, then the rest, not empty.  The            *)
(* quantifiers are greedy, so the way taken is the greatest in that order. *)
(***************************************************************************)
Least(a, b) == IF a < b THEN a ELSE b
CodeLineWays(line) ==
    LET Blanks(p) == RunOf(line, p, WhiteSpace)
        Hyphens(p) == IF Ch(line, p) = "-" THEN 1 ELSE 0
        W6(k, a, h, b, d) ==
            {<<k, a, h, b, d, c>> : c \in 1..Blanks(1 + k + a + h + b + d)}
        W5(k, a, h, b) ==
            UNION {W6(k, a, h, b, d) :
                      d \in 1..Least(3, RunOf(line, 1 + k + a + h + b, Digits))}
        W4(k, a, h) == UNION {W5(k, a, h, b) : b \in 0..Blanks(1 + k + a + h)}
        W3(k, a) == UNION {W4(k, a, h) : h \in 0..Hyphens(1 + k + a)}
        W2(k) == UNION {W3(k, a) : a \in 0..Blanks(1 + k)}
        Fitting(all) == {w \in all : w[1] + w[2] + w[3] + w[4] + w[5] + w[6] < Len(line)}
    IN  Fitting(UNION {W2(k) : k \in 4..RunOf(line, 1, Digits)})
RECURSIVE LexLess(_, _)
LexLess(u, w) ==
    /\ u # <<>>
    /\ \/ Head(u) < Head(w)
       \/ Head(u) = Head(w) /\ LexLess(Tail(u), Tail(w))
CODE_LINE_RE(line) ==
    LET Groups(w, at2) ==
            <<Slice(line, 1, w[1]), Slice(line, at2, at2 + w[5] - 1),
              From(line, at2 + w[5] + w[6])>>
        Way(w) == Groups(w, 1 + w[1] + w[2] + w[3] + w[4])
        Greatest(ways) ==
            IF ways = {} THEN <<>>
            ELSE Way(CHOOSE x \in ways : \A y \in ways : y = x \/ LexLess(y, x))
    IN  Greatest(CodeLineWays(line))

programas_Body(s, line) ==
    LET Named(t, juri_name, five) ==
            IF \E k \in 1..5 : five[k] = ValueError THEN Raise(t)
            ELSE IF is_total_row(juri_name) THEN Continue(t)
            ELSE Continue(Emit(t,
                     [Juri_Nombre |-> juri_name, Prog_Codigo |-> None,
                      Prog_Nombre |-> juri_name, Prog_Vigente |-> five[1],
                      Prog_Preventivo |-> five[2], Prog_Compromiso |-> five[3],
                      Prog_Devengado |-> five[4], Prog_Pagado |-> five[5]]))
        Jurisdiction(juri_name, amounts) ==
            Named([s EXCEPT !.juri_actual = juri_name,
                            !.jurisdicciones = Append(@, [Juri_Nombre |-> juri_name])],
                  juri_name, LastFive(amounts))
        Uncoded(amounts, name) ==
            IF Len(amounts) = 0 /\ name \in {"Departamento Ejecutivo", "H.C.D."}
            THEN Continue([s EXCEPT !.current_group = name, !.juri_actual = name,
                                    !.jurisdicciones = Append(@, [Juri_Nombre |-> name])])
            ELSE IF Len(amounts) >= 5
            THEN Jurisdiction(IF /\ s.current_group = "H.C.D."
                                 /\ Lower(name) = "actividades centrales"
                              THEN "HCD" ELSE name, amounts)
            ELSE Continue(s)
        ProgramRow(juri_code, prog_code, five, name) ==
            IF \E k \in 1..5 : five[k] = ValueError THEN Raise(s)
            ELSE IF is_total_row(name) THEN Continue(s)
            ELSE Continue(Emit(
                     [s EXCEPT !.jurisdicciones = Append(@,
                         [Juri_Codigo |-> juri_code,
                          Juri_Nombre |-> IF s.current_group # None
                                          THEN s.current_group ELSE s.juri_actual])],
                     [Juri_Codigo |-> juri_code, Prog_Codigo |-> prog_code,
                      Prog_Nombre |-> name, Prog_Vigente |-> five[1],
                      Prog_Preventivo |-> five[2], Prog_Compromiso |-> five[3],
                      Prog_Devengado |-> five[4], Prog_Pagado |-> five[5]]))
        Coded(juri_code, prog_code, prog_rest, amounts) ==
            IF Len(amounts) < 5
            THEN Continue(Warn(s, Quoted("Fila de programa incompleta", line)))
            ELSE ProgramRow(juri_code, prog_code, LastFive(amounts),
                         normalize_name(AmountSub(prog_rest)))
        Matched(code_match) ==
            IF code_match = <<>>
            THEN Uncoded(find_amounts(line), normalize_name(AmountSub(line)))
            ELSE Coded(code_match[1], code_match[2], code_match[3],
                       find_amounts(code_match[3]))
    IN  IF is_total_row(line) THEN Continue(s) ELSE Matched(CODE_LINE_RE(line))

\* one iteration of parse_programas_from_text's loop
programas_Line(s, raw) ==
    LET Keyed(line, low) ==
            IF ~s.in_section
            THEN Continue([s EXCEPT !.in_section = programas_IsStart(low)])
            ELSE IF \E k \in programas_SECTION_END_KEYWORDS : Contains(low, k) THEN Break(s)
            ELSE programas_Body(s, line)
        Named(line) == IF line = "" THEN Continue(s) ELSE Keyed(line, normalize_key(line))
    IN  Named(normalize_name(raw))

\* ---- metas.py
metas_SECTION_START == "evolucion de las principales metas de programas"
metas_SECTION_END_KEYWORDS ==
    {"r.a.f.a.m.", "hoja:", "estado de situacion patrimonial", "movimientos de tesoreria"}
metas_IsStart(low) == Contains(low, metas_SECTION_START)

\* _PROG_HEADER_RE = ^\s*(\d{10})\s+(\d+)\s+(.+)$ : <<>> or the three groups
PROG_HEADER_RE(line) ==
    LET \* \s+ gives a blank back when nothing else is left for (.+)
        Name(p1, p3, p4, p5) ==
            IF p5 > p4 /\ p5 <= Len(line)
            THEN <<Slice(line, p1, p1 + 9), Slice(line, p3, p4 - 1), From(line, p5)>>
            ELSE <<>>
        Blanks(p1, p3, p4, c) ==
            IF c >= 1
            THEN Name(p1, p3, p4, IF p4 + c > Len(line) THEN p4 + c - 1 ELSE p4 + c)
            ELSE <<>>
        ProgramCode(p1, p3, d) ==
            IF d >= 1 THEN Blanks(p1, p3, p3 + d, RunOf(line, p3 + d, WhiteSpace)) ELSE <<>>
        Code(p1, b) ==
            IF b >= 1 THEN ProgramCode(p1, p1 + 10 + b, RunOf(line, p1 + 10 + b, Digits)) ELSE <<>>
        Jurisdiction(p1) ==
            IF RunOf(line, p1, Digits) >= 10 THEN Code(p1, RunOf(line, p1 + 10, WhiteSpace))
            ELSE <<>>
    IN  Jurisdiction(RunOf(line, 1, WhiteSpace) + 1)

\* _META_ITEM_RE = ^\s*(\d+)\b : the position after the match, 0 when none
META_ITEM_RE(line) ==
    LET Item(a, d) == IF d >= 1 /\ ~IsWord(Ch(line, a + d + 1)) THEN a + d + 1 ELSE 0
        Number(a) == Item(a, RunOf(line, a + 1, Digits))
    IN  Number(RunOf(line, 1, WhiteSpace))

\* _UNIT_RE = \(([^)]+)\)\s*$ searched in text: <<>> when it is not found,
\* else <<the position of its "(", the position of its ")">>
UNIT_RE(text) ==
    LET Open(close, hits) ==
            IF close = 0 \/ Ch(text, close) # ")" \/ hits = {} THEN <<>>
            ELSE <<Min(hits), close>>
        Close(close) ==
            Open(close, {i \in 1..Len(text) :
                            /\ Ch(text, i) = "("
                            /\ i + 1 < close
                            /\ \A j \in (i + 1)..(close - 1) : Ch(text, j) # ")"})
    IN  Close(Most0({i \in 1..Len(text) : ~IsSpace(Ch(text, i))}))

(***************************************************************************)
(* _NUM_TOKEN_RE: an amount, else -?\d{1,3}(?:\.\d{3})+, else \d+, matched *)
(* at s[i-1:]: the position after the match, 0 when there is none.         *)
(***************************************************************************)
NumEnd(s, i) ==
    LET Grouped(j, d) == j + d + 4 * GroupRun(s, j + d)
        Other(j, grouped) ==
            IF grouped # {} THEN Grouped(j, Max(grouped))
            ELSE IF IsDigit(Ch(s, i)) THEN i + RunOf(s, i, Digits)
            ELSE 0
        Thousands(j) == Other(j, {d \in 1..DigitRun(s, j, 3) : GroupRun(s, j + d) >= 1})
        Amount(end) ==
            IF end # 0 THEN end ELSE Thousands(IF Ch(s, i) = "-" THEN i + 1 ELSE i)
    IN  Amount(AmountEnd(s, i))
RECURSIVE NumTokens(_, _)
NumTokens(s, i) ==
    LET Match(end) ==
            IF end = 0 THEN NumTokens(s, i + 1)
            ELSE <<Slice(s, i, end - 1)>> \o NumTokens(s, end)
    IN  IF i > Len(s) THEN <<>> ELSE Match(NumEnd(s, i))
\* _parse_numeric_tokens
parse_numeric_tokens(text) ==
    LET Floats(tokens) ==
            [k \in 1..Len(tokens) |->
                IF Contains(tokens[k], ",") THEN parse_amount_ar(tokens[k])
                ELSE float(Replace(tokens[k], ".", ""))]
    IN  Floats(NumTokens(text, 1))

\* the three columns a goal takes from the numbers of a line
WithNumbers(meta, nums) ==
    [meta EXCEPT !.Meta_Anual = IF Len(nums) >= 4 THEN FromEnd(nums, 4) ELSE FromEnd(nums, 3),
                 !.Meta_Parcial = FromEnd(nums, 3),
                 !.Meta_Ejecutado = FromEnd(nums, 2)]

\* A header after the first one changing nothing.
FirstProgramKept(s, prog_match) ==
    IF s.current_juri # None THEN s
    ELSE [s EXCEPT !.current_juri = prog_match[1],
                   !.current_prog_code = prog_match[2],
                   !.current_prog_name = normalize_name(prog_match[3]),
                   !.pending_meta = <<>>]
\* the locals after a line that matches _PROG_HEADER_RE
CurrentProgram(s, prog_match) ==
    [s EXCEPT !.current_juri = prog_match[1],
              !.current_prog_code = prog_match[2],
              !.current_prog_name = normalize_name(prog_match[3]),
              !.pending_meta = <<>>]

metas_Body(s, line) ==
    LET Pending(nums, meta_text, unit) ==
            [Juri_Codigo |-> s.current_juri, Prog_Codigo |-> s.current_prog_code,
             Prog_Nombre |-> s.current_prog_name, Meta_Nombre |-> meta_text,
             Meta_Unidad |-> unit, Meta_Anual |-> NoneFloat, Meta_Parcial |-> NoneFloat,
             Meta_Ejecutado |-> NoneFloat, Meta_Observacion |-> None]
        Meta(nums, pending) ==
            IF Len(nums) >= 3
            THEN Continue(Emit([s EXCEPT !.pending_meta = <<>>], WithNumbers(pending, nums)))
            ELSE Continue([s EXCEPT !.pending_meta = <<pending>>])
        Unit(nums, meta_text, unit_match) ==
            IF unit_match = <<>> THEN Meta(nums, Pending(nums, meta_text, None))
            ELSE Meta(nums, Pending(nums,
                          normalize_name(Slice(meta_text, 1, unit_match[1] - 1)),
                          normalize_name(Slice(meta_text, unit_match[1] + 1,
                                               unit_match[2] - 1))))
        Item(nums, meta_text) == Unit(nums, meta_text, UNIT_RE(meta_text))
        Numbers(nums, after) ==
            IF \E k \in 1..Len(nums) : nums[k] = ValueError THEN Raise(s)
            ELSE IF after # 0 THEN Item(nums, Strip(From(line, after)))
            ELSE IF s.pending_meta # <<>> /\ Len(nums) >= 3
            THEN Continue(Emit([s EXCEPT !.pending_meta = <<>>],
                               WithNumbers(s.pending_meta[1], nums)))
            ELSE Continue(s)
        Header(prog_match) ==
            IF prog_match # <<>>
            THEN Continue(CurrentProgram(s, prog_match))
            ELSE IF s.current_juri = None \/ s.current_prog_code = None THEN Continue(s)
            ELSE Numbers(parse_numeric_tokens(line), META_ITEM_RE(line))
        Keyed(low) ==
            IF Contains(low, "programado") /\ Contains(low, "diferencia") THEN Continue(s)
            ELSE IF low \in {"departamento ejecutivo", "h.c.d."} THEN Continue(s)
            ELSE Header(PROG_HEADER_RE(line))
    IN  Keyed(normalize_key(line))

\* one iteration of parse_metas_from_text's loop
metas_Line(s, raw) ==
    LET Keyed(line, low) ==
            IF ~s.in_section
            THEN Continue([s EXCEPT !.in_section = metas_IsStart(low)])
            ELSE IF \E k \in metas_SECTION_END_KEYWORDS : Contains(low, k) THEN Break(s)
            ELSE metas_Body(s, line)
        Named(line) == IF line = "" THEN Continue(s) ELSE Keyed(line, normalize_key(line))
    IN  Named(normalize_name(raw))

\* ---- movimientos.py
movimientos_SECTION_START == "movimientos de tesoreria"
movimientos_SECTION_END_KEYWORDS ==
    {"estado de situacion patrimonial", "demostracion del saldo",
     "evolucion de las principales metas"}
movimientos_IsStart(low) == Contains(low, movimientos_SECTION_START)

\* _MOV_TYPES, in order: <<slug, label>>
MOV_TYPES ==
    <<<<"Saldo Inicial", "saldo inicial">>,
      <<"Ingreso", "ingresos del periodo">>,
      <<"Ingreso", "ingresos de ajustes contables">>,
      <<"Egreso", "gastos del periodo">>,
      <<"Egreso", "egresos de ajustes contables">>,
      <<"Saldo Inicial", "saldo final">>>>

\* the starts of the matches of \b\d{9}\b in line
NineDigitCodes(line) ==
    {i \in 1..Len(line) :
        /\ Boundary(line, i)
        /\ RunOf(line, i, Digits) = 9
        /\ Boundary(line, i + 9)}

\* a Python dict as the sequence of its <<key, value>> in insertion order
Has(dict, key) == \E k \in 1..Len(dict) : dict[k][1] = key
Item(dict, key) == dict[CHOOSE k \in 1..Len(dict) : dict[k][1] = key][2]

movimientos_Body(s, full) ==
    LET Found(line, slug, importe, colon) ==
            IF importe = ValueError THEN Raise(s)
            ELSE [s EXCEPT !.found = Append(@,
                     <<slug, [MovTes_Tipo |-> normalize_name(IF colon # 0
                                                             THEN Slice(line, 1, colon - 1)
                                                             ELSE line),
                              MovTes_Importe |-> importe,
                              MovTes_TipoResumido |-> slug]>>)]
        Done(t) ==
            IF t.status = "raised" THEN t
            ELSE IF Len(t.found) = Len(MOV_TYPES) THEN Break(t)
            ELSE Continue(t)
        \* the first entry of _MOV_TYPES whose label is in the line and whose
        \* slug is not yet in found
        Type(line, amounts, takes) ==
            IF takes = {} THEN Done(s)
            ELSE Done(Found(line, MOV_TYPES[Min(takes)][1], parse_amount_ar(amounts[1]),
                            Find(line, ":")))
        Amounts(line, low, amounts) ==
            IF amounts = <<>> THEN Continue(s)
            ELSE Type(line, amounts,
                      {k \in 1..Len(MOV_TYPES) :
                          Contains(low, MOV_TYPES[k][2]) /\ ~Has(s.found, MOV_TYPES[k][1])})
        Left(line) ==
            IF line = "" THEN Continue(s)
            ELSE Amounts(line, normalize_key(line), find_amounts(line))
        Codes(codes) ==
            IF codes = {} THEN Left(full) ELSE Left(Strip(Slice(full, 1, Min(codes) - 1)))
        Keyed(low) ==
            IF Contains(low, "movimientos de tesoreria") /\ Contains(low, "importe")
            THEN Continue(s)
            ELSE Codes(NineDigitCodes(full))
    IN  Keyed(normalize_key(full))

\* one iteration of parse_movimientos_from_text's loop
movimientos_Line(s, raw) ==
    LET Keyed(line, low) ==
            IF ~s.in_section
            THEN Continue([s EXCEPT !.in_section = movimientos_IsStart(low)])
            ELSE IF \E k \in movimientos_SECTION_END_KEYWORDS : Contains(low, k) THEN Break(s)
            ELSE movimientos_Body(s, line)
        Named(line) == IF line = "" THEN Continue(s) ELSE Keyed(line, normalize_key(line))
    IN  Named(normalize_name(raw))

\* the values of a dict for the keys of `entries` it has, in the order of `entries`
Picked(found, entries) ==
    LET Taken(picked) == [k \in 1..Len(picked) |-> Item(found, picked[k][1])]
    IN  Taken(SelectSeq(entries, LAMBDA e : Has(found, e[1])))

\* after the loop: `for slug, _label in _MOV_TYPES: if slug in found`
movimientos_Rows(found) == Picked(found, MOV_TYPES)

\* ---- cuentas.py
cuentas_SECTION_START == "demostracion del saldo"
cuentas_SECTION_END_KEYWORDS == {"evolucion de las principales metas"}
cuentas_IsStart(low) == Contains(low, cuentas_SECTION_START)

\* cuentas._tipo_from_nombre
tipo_from_nombre(name) ==
    LET Tipo(low) ==
            IF Contains(low, "banco") THEN "BANCO"
            ELSE IF Contains(low, "fondos") THEN "FONDOS"
            ELSE IF Contains(low, "recursos") \/ Contains(low, "afectados") THEN "RECURSOS"
            ELSE IF Contains(low, "caja") THEN "CAJA"
            ELSE "OTRO"
    IN  Tipo(normalize_key(name))

\* _CODE_RE = ^\d{6,12}\b of cuentas.py: the number of digits matched, 0 when none
cuentas_CODE_RE(text) ==
    LET Code(r) == IF r >= 6 /\ r <= 12 /\ ~IsWord(Ch(text, r + 1)) THEN r ELSE 0
    IN  Code(RunOf(text, 1, Digits))

cuentas_Body(s, line) ==
    LET Row(code, nombre, importe) ==
            Continue(Emit(s, [Cuenta_Codigo |-> code, Cuenta_Nombre |-> nombre,
                              Cuenta_Tipo |-> tipo_from_nombre(nombre),
                              Cuenta_Importe |-> importe]))
        Coded(code, rest, importe) ==
            Row(code, IF rest = "" THEN code ELSE rest, importe)
        Code(line_wo_amount, digits, importe) ==
            IF digits # 0
            THEN Coded(Slice(line_wo_amount, 1, digits),
                       Strip(From(line_wo_amount, digits + 1)), importe)
            ELSE Row(None, line_wo_amount, importe)
        Account(line_wo_amount, importe) ==
            IF importe = ValueError THEN Raise(s)
            ELSE IF line_wo_amount = "" THEN Continue(s)
            ELSE IF StartsWith(Lower(line_wo_amount), "caja")
            THEN Continue(Emit(s, [Cuenta_Codigo |-> None, Cuenta_Nombre |-> "CAJA",
                                   Cuenta_Tipo |-> "CAJA", Cuenta_Importe |-> importe]))
            ELSE Code(line_wo_amount, cuentas_CODE_RE(line_wo_amount), importe)
        Last(last) ==
            Account(Strip(Slice(line, 1, RFind(line, last) - 1)), parse_amount_ar(last))
        Amounts(amounts) ==
            IF amounts = <<>> THEN Continue(s) ELSE Last(FromEnd(amounts, 1))
        Keyed(low) ==
            IF Contains(low, "total") THEN Continue(s)
            ELSE IF \/ Contains(low, "pasivo") \/ Contains(low, "activo")
                    \/ Contains(low, "patrimonio")
            THEN Continue(s)
            ELSE IF Cardinality(NineDigitCodes(line)) > 1 THEN Continue(s)
            ELSE Amounts(find_amounts(line))
    IN  Keyed(normalize_key(line))

\* one iteration of parse_cuentas_from_text's loop
cuentas_Line(s, raw) ==
    LET Keyed(line, low) ==
            IF ~s.in_section
            THEN Continue([s EXCEPT !.in_section = cuentas_IsStart(low)])
            ELSE IF \E k \in cuentas_SECTION_END_KEYWORDS : Contains(low, k) THEN Break(s)
            ELSE cuentas_Body(s, line)
        Named(line) == IF line = "" THEN Continue(s) ELSE Keyed(line, normalize_key(line))
    IN  Named(normalize_name(raw))

\* ---- sitpat.py
sitpat_SECTION_START == "estado de situacion patrimonial"
sitpat_SECTION_END_KEYWORDS ==
    {"demostracion del saldo", "evolucion de las principales metas",
     "movimientos de tesoreria"}
sitpat_IsStart(low) == Contains(low, sitpat_SECTION_START)

\* _CODE_NAME_MAP, in order: <<code, label>>
CODE_NAME_MAP ==
    <<<<"110000000", "Activo Corriente">>,
      <<"120000000", "Activo No Corriente">>,
      <<"210000000", "Pasivo Corriente">>,
      <<"220000000", "Pasivo No Corriente">>,
      <<"311000000", "Capital Fiscal">>,
      <<"312100000", "Resultados de Ejercicios Anteriores">>,
      <<"312200000", "Resultado del ejercicio">>,
      <<"312300000", "Resultados afectados a la construccion de bienes de dominio publico">>>>

\* sitpat._tipo_from_name
tipo_from_name(name, saldo) ==
    IF Contains(normalize_key(name), "activo") THEN "ACTIVO" ELSE "PASIVO_PATRIMONIO"

\* sitpat._pick_amount_after_code: <<>> for None, else <<the amount>>
pick_amount_after_code(line, code) ==
    LET First(amounts) == IF amounts = <<>> THEN <<>> ELSE <<parse_amount_ar(amounts[1])>>
        Tail_(code_idx) ==
            IF code_idx = 0 THEN <<>>
            ELSE First(find_amounts(From(line, code_idx + Len(code))))
    IN  Tail_(Find(line, code))

\* `for code, label in _CODE_NAME_MAP.items()` from entry k on
RECURSIVE sitpat_Codes(_, _, _)
sitpat_Codes(found, line, k) ==
    LET Entry(code, label, saldo) ==
            IF Contains(line, code) /\ ~Has(found, code) /\ saldo # <<>>
            THEN Append(found,
                     <<code, [SitPat_Codigo |-> code, SitPat_Nombre |-> label,
                              SitPat_Saldo |-> saldo[1],
                              SitPat_Tipo |-> tipo_from_name(label, saldo[1])]>>)
            ELSE found
    IN  IF k > Len(CODE_NAME_MAP) THEN found
        ELSE sitpat_Codes(Entry(CODE_NAME_MAP[k][1], CODE_NAME_MAP[k][2],
                                pick_amount_after_code(line, CODE_NAME_MAP[k][1])),
                          line, k + 1)

sitpat_Body(s, line) ==
    LET Found(found) ==
            IF \E k \in 1..Len(found) : found[k][2].SitPat_Saldo = ValueError THEN Raise(s)
            ELSE IF Len(found) = Len(CODE_NAME_MAP) THEN Break([s EXCEPT !.found = found])
            ELSE Continue([s EXCEPT !.found = found])
        Keyed(low) ==
            IF Contains(low, "estado de situacion patrimonial") /\ Contains(low, "saldo")
            THEN Continue(s)
            ELSE IF Contains(low, "movimientos de tesoreria") THEN Continue(s)
            ELSE Found(sitpat_Codes(s.found, line, 1))
    IN  Keyed(normalize_key(line))

\* one iteration of parse_sitpat_from_text's loop
sitpat_Line(s, raw) ==
    LET Keyed(line, low) ==
            IF ~s.in_section
            THEN Continue([s EXCEPT !.in_section = sitpat_IsStart(low)])
            ELSE IF \E k \in sitpat_SECTION_END_KEYWORDS : Contains(low, k) THEN Break(s)
            ELSE sitpat_Body(s, line)
        Named(line) == IF line = "" THEN Continue(s) ELSE Keyed(line, normalize_key(line))
    IN  Named(normalize_name(raw))

\* after the loop: `for code in _CODE_NAME_MAP: if code in found`
sitpat_Rows(found) == Picked(found, CODE_NAME_MAP)

\* ---- what follows the loops
\* the warning a parser appends when it has no rows, where it has one
NoRowsWarning(parser) ==
    CASE parser = "metas" -> <<"No se encontraron metas.">>
      [] parser = "movimientos" -> <<"No se encontraron movimientos de tesoreria.">>
      [] parser = "cuentas" -> <<"No se encontraron cuentas.">>
      [] parser = "sitpat" -> <<"No se encontraron filas de situacion patrimonial.">>
      [] OTHER -> <<>>

\* the statements after the loop, up to the return
AfterLoop(s) ==
    LET Return(rows) ==
            [s EXCEPT !.status = "returned", !.rows = rows,
                      !.warnings = IF rows = <<>> THEN @ \o NoRowsWarning(s.parser) ELSE @]
    IN  Return(CASE s.parser = "movimientos" -> movimientos_Rows(s.found)
                 [] s.parser = "sitpat" -> sitpat_Rows(s.found)
                 [] OTHER -> s.rows)

-----------------------------------------------------------------------------
(***************************************************************************)
(* The texts the parsers are run on.                                       *)
(***************************************************************************)
\* Bound on the number of lines of a text drawn freely from a parser's lines.
MaxTextLines == 3

\* '<jurisdiction code> <program code> <name> a1 a2 a3 a4 a5'
Amount(text, value) == [text |-> text, value |-> value]
CodedForm(juri, prog, name, amounts) ==
    [juri |-> juri, prog |-> prog, name |-> name, amounts |-> amounts]
CodedLine(form) ==
    Join(<<form.juri, form.prog, form.name>>
         \o [k \in 1..Len(form.amounts) |-> form.amounts[k].text])
FiveAmounts ==
    <<Amount("1.000,00", Float(1000, 0)), Amount("900,00", Float(900, 0)),
      Amount("850,00", Float(850, 0)), Amount("800,00", Float(800, 0)),
      Amount("750,00", Float(750, 0))>>
HealthForm == CodedForm("1234567890", "01", "Health", FiveAmounts)
CodedForms ==
    {HealthForm,
     [HealthForm EXCEPT !.name = "Total Health"],
     [HealthForm EXCEPT !.prog = "0123"],
     [HealthForm EXCEPT !.amounts[1] = Amount("1000,00", Float(1000, 0))]}

\* the lines a text of each parser is made of: its start marker, one of its
\* end markers, lines that carry a row, and a malformed line
LinesOf(parser) ==
    CASE parser = "recursos" ->
            {"Evolucion de los Recursos",
             "Evolucion de Gastos por Objeto",
             "1. Recursos Presupuestarios 5.000,00 4.000,00 3.000,00",
             "2. Extrapresupuestarios",
             "Tasas municipales  1.000,00 900,00 850,00",
             "Derechos 1.000,00 9,5 abc 900,00"}
      [] parser = "gastos" ->
            {"Evolucion de Gastos por Objeto",
             "Evolucion de Gastos por Programa",
             "1. Presupuestarios",
             "2. Extrapresupuestarios",
             "Personal 1.000,00 900,00 850,00 800,00 750,00",
             "Bienes 1.000,00 abc 12,5"}
      [] parser = "programas" ->
            {"Evolucion de Gastos por Programa",
             "Evolucion de los Recursos",
             "1234567890 02 Roads 1.000,00 900,00"}
            \cup {CodedLine(f) : f \in CodedForms}
      [] parser = "metas" ->
            {"Evolucion de las principales metas de programas",
             "Hoja: 2",
             "1110101000 16 Salud Publica",
             "1 Consultas (Consulta) 1.000 500 450",
             "2 Vacunas aplicadas 12,5 x"}
      [] parser = "movimientos" ->
            {"Movimientos de Tesoreria",
             "Demostracion del Saldo",
             "Saldo Inicial: 1.000,00",
             "Ingresos del Periodo: 500,00",
             "Ingresos de Ajustes Contables: 20,00",
             "Total Ingresos del Periodo: 520,00",
             "Gastos del Periodo 4,0 abc"}
      [] parser = "cuentas" ->
            {"Demostracion del Saldo",
             "Evolucion de las principales metas",
             "Caja 1.000,00",
             "111101000 Banco Provincia 2.500,50",
             "Fondos 12,5 abc"}
      [] parser = "sitpat" ->
            {"Estado de Situacion Patrimonial",
             "Demostracion del Saldo",
             "110000000 Activo Corriente 1.000,00",
             "210000000 Pasivo Corriente 400,00",
             "120000000 Activo No Corriente abc"}

\* the malformed lines among them: a wrong number of amounts, stray numeric
\* tokens, a missing code, a missing amount
Malformed ==
    {"Derechos 1.000,00 9,5 abc 900,00", "Bienes 1.000,00 abc 12,5",
     "1234567890 02 Roads 1.000,00 900,00", "2 Vacunas aplicadas 12,5 x",
     "Gastos del Periodo 4,0 abc", "Fondos 12,5 abc", "120000000 Activo No Corriente abc"}

\* the six canonical lines of the treasury section
TreasuryLines ==
    <<"Saldo Inicial: 1.000,00",
      "Ingresos del Periodo: 500,00",
      "Ingresos de Ajustes Contables: 20,00",
      "Gastos del Periodo: 400,00",
      "Egresos de Ajustes Contables: 10,00",
      "Saldo Final: 1.110,00">>

\* longer texts: a whole section, its end marker, and the section once more
Scenarios(parser) ==
    CASE parser = "recursos" ->
            {<<"Evolucion de los Recursos", "1. Recursos Presupuestarios",
               "Tasas municipales  1.000,00 900,00 850,00",
               "Evolucion de Gastos por Objeto",
               "Evolucion de los Recursos", "Tasas municipales  1.000,00 900,00 850,00">>,
             <<"Evolucion de los Recursos", "1. Recursos Presupuestarios",
               "Tasas municipales  1.000,00 900,00 850,00",
               "Derechos 700,00 600,00 500,00",
               "2. Extrapresupuestarios",
               "Fondos de terceros 300,00 200,00 100,00",
               "Depositos 30,00">>}
      [] parser = "gastos" ->
            {<<"Evolucion de Gastos por Objeto", "1. Presupuestarios",
               "Personal 1.000,00 900,00 850,00 800,00 750,00",
               "Evolucion de Gastos por Programa",
               "Evolucion de Gastos por Objeto",
               "Personal 1.000,00 900,00 850,00 800,00 750,00">>,
             <<"Evolucion de Gastos por Objeto", "1. Presupuestarios",
               "Personal 1.000,00 900,00 850,00 800,00 750,00",
               "Bienes 500,00 400,00 300,00 200,00 100,00",
               "2. Extrapresupuestarios",
               "Servicios 50,00 40,00 30,00 20,00 10,00">>}
      [] parser = "movimientos" ->
            {<<"Movimientos de Tesoreria">> \o TreasuryLines,
             <<"Movimientos de Tesoreria">> \o TreasuryLines
                 \o <<"Demostracion del Saldo", "Movimientos de Tesoreria">>
                 \o TreasuryLines,
             <<"Movimientos de Tesoreria", "Ingresos del Periodo: 500,00",
               "Gastos del Periodo: 400,00", "Saldo Final: 1.110,00">>}
      [] parser = "programas" ->
            {<<"Evolucion de Gastos por Programa", CodedLine(HealthForm),
               "Evolucion de los Recursos",
               "Evolucion de Gastos por Programa", CodedLine(HealthForm)>>}
      [] parser = "metas" ->
            {<<"Evolucion de las principales metas de programas",
               "1110101000 16 Salud Publica", "1 Consultas (Consulta) 1.000 500 450",
               "Hoja: 2",
               "Evolucion de las principales metas de programas",
               "1110101000 16 Salud Publica", "1 Consultas (Consulta) 1.000 500 450">>,
             <<"Evolucion de las principales metas de programas",
               "1 Consultas (Consulta) 1.000 500 450",
               "1110101000 16 Salud Publica", "1 Consultas (Consulta) 1.000 500 450",
               "1110102000 17 Educacion", "1 Alumnos (Alumno) 2.000 900 800",
               "2 Becas", "300 200 100">>,
             <<"Evolucion de las principales metas de programas",
               "1110101000 16 Salud Publica",
               "1110102000 17 Programado Diferencia",
               "1 Consultas (Consulta) 1.000 500 450">>,
             <<"Evolucion de las principales metas de programas",
               "1110101000 16 Salud Publica", "2 Becas", "3 Talleres",
               "1110102000 17 Educacion", "4 Cursos", "Hoja: 2">>,
             <<"Evolucion de las principales metas de programas",
               "1110101000 16 Salud Publica", "2 Becas">>}
      [] parser = "cuentas" ->
            {<<"Demostracion del Saldo", "Caja 1.000,00",
               "Evolucion de las principales metas",
               "Demostracion del Saldo", "111101000 Banco Provincia 2.500,50">>,
             <<"Demostracion del Saldo", "Caja (123,45)",
               "Fondos de terceros 1.234,56",
               "111101000 Banco Provincia (2.500,50)">>}
      [] parser = "sitpat" ->
            {<<"Estado de Situacion Patrimonial", "110000000 Activo Corriente 1.000,00",
               "Demostracion del Saldo",
               "Estado de Situacion Patrimonial", "210000000 Pasivo Corriente 400,00">>}

Texts(parser) == SeqsUpTo(LinesOf(parser), MaxTextLines) \cup Scenarios(parser)

-----------------------------------------------------------------------------
(***************************************************************************)
(* A parser's run: one action per loop, one for what follows the loops.    *)
(***************************************************************************)
ScanInit == scan \in UNION {{Locals(p, text) : text \in Texts(p)} : p \in Parsers}

InLoop(parser) ==
    /\ scan.parser = parser
    /\ scan.status = "loop"
    /\ scan.i <= Len(scan.text)

\* parse_recursos_from_text: `for raw_line in text_all.splitlines()`
RecursosLoop ==
    /\ InLoop("recursos")
    /\ scan' = recursos_Line(scan, scan.text[scan.i])
    /\ UNCHANGED <<ex_vars, run_vars, helper>>

\* parse_gastos_objeto_from_text
GastosLoop ==
    /\ InLoop("gastos")
    /\ scan' = gastos_Line(scan, scan.text[scan.i])
    /\ UNCHANGED <<ex_vars, run_vars, helper>>

\* parse_programas_from_text
ProgramasLoop ==
    /\ InLoop("programas")
    /\ scan' = programas_Line(scan, scan.text[scan.i])
    /\ UNCHANGED <<ex_vars, run_vars, helper>>

\* parse_metas_from_text
MetasLoop ==
    /\ InLoop("metas")
    /\ scan' = metas_Line(scan, scan.text[scan.i])
    /\ UNCHANGED <<ex_vars, run_vars, helper>>

\* parse_movimientos_from_text
MovimientosLoop ==
    /\ InLoop("movimientos")
    /\ scan' = movimientos_Line(scan, scan.text[scan.i])
    /\ UNCHANGED <<ex_vars, run_vars, helper>>

\* parse_cuentas_from_text
CuentasLoop ==
    /\ InLoop("cuentas")
    /\ scan' = cuentas_Line(scan, scan.text[scan.i])
    /\ UNCHANGED <<ex_vars, run_vars, helper>>

\* parse_sitpat_from_text
SitpatLoop ==
    /\ InLoop("sitpat")
    /\ scan' = sitpat_Line(scan, scan.text[scan.i])
    /\ UNCHANGED <<ex_vars, run_vars, helper>>

\* the loop ended, by a break or at the last line: the rest of the function
ParserReturn ==
    /\ scan.parser \in Parsers
    /\ \/ scan.status = "break"
       \/ scan.status = "loop" /\ scan.i > Len(scan.text)
    /\ scan' = AfterLoop(scan)
    /\ UNCHANGED <<ex_vars, run_vars, helper>>

ParseNext ==
    \/ RecursosLoop
    \/ GastosLoop
    \/ ProgramasLoop
    \/ MetasLoop
    \/ MovimientosLoop
    \/ CuentasLoop
    \/ SitpatLoop
    \/ ParserReturn

-----------------------------------------------------------------------------
(***************************************************************************)
(* Helper functions called on their own: route_sections of the section-    *)
(* scoped ingest, _reclassify_cuentas_to_sitpat of the single shot, and    *)
(* the upsert helpers of the section-scoped ingest.                        *)
(***************************************************************************)
\* the locals of a helper before its first statement
HelperCall(fn) ==
    [fn |-> fn, status |-> "start", i |-> 1,
     pdfplumber |-> TRUE, pages |-> <<>>, page_texts |-> <<>>,
     juri_prog_pages |-> <<>>, metas_pages |-> <<>>, used_fallback |-> FALSE,
     payload |-> [bd_cuentas |-> <<>>, bd_situacionpatrimonial |-> <<>>],
     cuentas |-> <<>>, sitpat |-> <<>>, kept_cuentas |-> <<>>, moved |-> 0,
     warnings |-> <<>>,
     name |-> "", rows |-> <<>>, outcomes |-> <<>>, wrote |-> <<>>]

\* ---- ingest/router.py
JURI_PROG_KEYWORDS == <<"jurisdic", "programa", "presupuesto">>
METAS_KEYWORDS == <<"metas", "evolucion", "evoluci", "principales">>

\* _score_page
score_page(text, keywords) ==
    LET Hits(text_lower) ==
            Cardinality({k \in 1..Len(keywords) : Contains(text_lower, keywords[k])})
    IN  Hits(Lower(text))

\* A page qualifying with one keyword.
QualifiesAtOne(score) == score >= 1
\* `_score_page(...) >= 2`
Qualifies(score) == score >= 2

\* Bound on the number of pages of a PDF.
MaxPages == 3
\* the texts of the pages
PageTexts ==
    {"", "Presupuesto por PROGRAMA", "Jurisdiccion 1110101000",
     "Principales Metas", "Evolucion", "Programas principales",
     "Evolucion de metas de programas y presupuesto"}

RouterInputs ==
    {[HelperCall("route_sections") EXCEPT !.pages = pages, !.pdfplumber = lib] :
        pages \in SeqsUpTo(PageTexts, MaxPages), lib \in BOOLEAN}

\* _extract_page_texts: {} without pdfplumber, else the text of every page
ExtractPageTexts ==
    /\ helper.fn = "route_sections"
    /\ helper.status = "start"
    /\ helper' = [helper EXCEPT
                     !.page_texts = IF helper.pdfplumber THEN helper.pages ELSE <<>>,
                     !.status = "loop"]
    /\ UNCHANGED <<ex_vars, run_vars, scan>>

\* route_sections: `for page_num, text in page_texts.items()`
RoutePage ==
    /\ helper.fn = "route_sections"
    /\ helper.status = "loop"
    /\ helper.i <= Len(helper.page_texts)
    /\ LET page_num == helper.i
           text == helper.page_texts[helper.i]
       IN  helper' = [helper EXCEPT
               !.juri_prog_pages =
                   IF Qualifies(score_page(text, JURI_PROG_KEYWORDS))
                   THEN Append(@, page_num) ELSE @,
               !.metas_pages =
                   IF Qualifies(score_page(text, METAS_KEYWORDS))
                   THEN Append(@, page_num) ELSE @,
               !.i = @ + 1]
    /\ UNCHANGED <<ex_vars, run_vars, scan>>

\* route_sections, after the loop
RouteReturn ==
    /\ helper.fn = "route_sections"
    /\ helper.status = "loop"
    /\ helper.i > Len(helper.page_texts)
    /\ helper' = [helper EXCEPT
                     !.used_fallback =
                         helper.juri_prog_pages = <<>> /\ helper.metas_pages = <<>>,
                     !.status = "returned"]
    /\ UNCHANGED <<ex_vars, run_vars, scan>>

\* ---- single_shot/pipeline.py: _reclassify_cuentas_to_sitpat
SITPAT_NAMES ==
    {<<"ACTIVO CORRIENTE", "Activo">>,
     <<"ACTIVO NO CORRIENTE", "Activo">>,
     <<"PASIVO CORRIENTE", "Pasivo">>,
     <<"PASIVO NO CORRIENTE", "Pasivo">>,
     <<"CAPITAL FISCAL", "Patrimonio Publico">>,
     <<"RESULTADO DE EJERCICIOS ANTERIORES", "Patrimonio Publico">>,
     <<"RESULTADO DEL EJERCICIO", "Patrimonio Publico">>,
     <<"RESULTADOS AFECTADOS A CONSTRUCCION DE BIENES DE DOMINIO PUBLICO",
       "Patrimonio Publico">>}
\* _SITPAT_NAMES.get(name)
SitpatTipo(name) ==
    IF \E e \in SITPAT_NAMES : e[1] = name
    THEN (CHOOSE e \in SITPAT_NAMES : e[1] = name)[2]
    ELSE None

UpperCh(c) ==
    LET Nth(at) == IF at = 0 THEN c ELSE Ch(UpperCase, at)
    IN  Nth(Find(LowerCase, c))
\* str.upper
RECURSIVE Upper(_)
Upper(s) ==
    IF s = "" THEN ""
    ELSE IF Len(s) = 1 THEN UpperCh(s)
    ELSE Upper(Slice(s, 1, Len(s) \div 2)) \o Upper(From(s, Len(s) \div 2 + 1))

\* _norm_text: on ASCII text the NFKD step changes nothing
norm_text(value) ==
    IF value = None \/ value = "" THEN "" ELSE Join(Split(Upper(Strip(value))))

CuentaItem(name, code, importe) ==
    [Cuenta_Nombre |-> name, Cuenta_Codigo |-> code, Cuenta_Importe |-> importe]
\* the balance-sheet row an account row is moved as
SitpatRow(tipo, item) ==
    [SitPat_Tipo |-> tipo, SitPat_Nombre |-> item.Cuenta_Nombre,
     SitPat_Saldo |-> item.Cuenta_Importe]

\* A moved row staying among the accounts as well.
ReclassifyItemKeepsMoved(s, item) ==
    [s EXCEPT !.kept_cuentas = Append(@, item),
              !.sitpat = IF SitpatTipo(norm_text(item.Cuenta_Nombre)) # None
                         THEN Append(@, SitpatRow(SitpatTipo(norm_text(item.Cuenta_Nombre)),
                                                  item))
                         ELSE @,
              !.i = @ + 1]
\* the body of `for item in cuentas`
ReclassifyItem(s, item) ==
    LET Moves(name, is_numeric_code, sitpat_tipo) ==
            /\ sitpat_tipo # None
            /\ \/ is_numeric_code
               \/ \E p \in {"ACTIVO", "PASIVO", "CAPITAL", "RESULTADO"} : StartsWith(name, p)
        Body(name, code) ==
            IF Moves(name, code # "" /\ AllDigits(code) /\ Len(code) >= 6, SitpatTipo(name))
            THEN [s EXCEPT !.sitpat = Append(@, SitpatRow(SitpatTipo(name), item)),
                           !.moved = @ + 1,
                           !.i = @ + 1]
            ELSE [s EXCEPT !.kept_cuentas = Append(@, item), !.i = @ + 1]
    IN  Body(norm_text(item.Cuenta_Nombre),
             Strip(IF item.Cuenta_Codigo = None THEN "" ELSE item.Cuenta_Codigo))

\* Bound on the number of rows of the extracted accounts array.
MaxCuentas == 3
CuentaItems ==
    {CuentaItem("Caja", "111101000", 10),
     CuentaItem(" activo  corriente ", "110000", 20),
     CuentaItem("Pasivo Corriente", None, 30),
     CuentaItem("Activo Corriente", "110000", 20),
     CuentaItem(None, "12", 40),
     CuentaItem("Resultado", "310000", 50)}
ReclassifyInputs ==
    {[HelperCall("_reclassify_cuentas_to_sitpat") EXCEPT
          !.payload = [bd_cuentas |-> c, bd_situacionpatrimonial |-> sp]] :
        c \in SeqsUpTo(CuentaItems, MaxCuentas),
        sp \in {<<>>, <<SitpatRow("Activo", CuentaItem("Activo Corriente", "", 20))>>}}

\* `cuentas = payload.get("bd_cuentas", []) or []` and the same for sitpat
ReclassifyStart ==
    /\ helper.fn = "_reclassify_cuentas_to_sitpat"
    /\ helper.status = "start"
    /\ helper' = [helper EXCEPT !.cuentas = helper.payload.bd_cuentas,
                                !.sitpat = helper.payload.bd_situacionpatrimonial,
                                !.status = "loop"]
    /\ UNCHANGED <<ex_vars, run_vars, scan>>

\* `for item in cuentas`
ReclassifyLoop ==
    /\ helper.fn = "_reclassify_cuentas_to_sitpat"
    /\ helper.status = "loop"
    /\ helper.i <= Len(helper.cuentas)
    /\ helper' = ReclassifyItem(helper, helper.cuentas[helper.i])
    /\ UNCHANGED <<ex_vars, run_vars, scan>>

\* after the loop: the warning, the two arrays stored in the payload
ReclassifyReturn ==
    /\ helper.fn = "_reclassify_cuentas_to_sitpat"
    /\ helper.status = "loop"
    /\ helper.i > Len(helper.cuentas)
    /\ helper' = [helper EXCEPT
           !.warnings = IF helper.moved # 0 THEN Append(@, "Se movieron filas") ELSE @,
           !.payload = [bd_cuentas |-> helper.kept_cuentas,
                        bd_situacionpatrimonial |-> helper.sitpat],
           !.status = "returned"]
    /\ UNCHANGED <<ex_vars, run_vars, scan>>

\* ---- ingest/supabase_io.py: upsert_jurisdicciones, upsert_programas,
\* ---- upsert_metas
TABLE_FALLBACKS ==
    [n \in {"BD_Jurisdicciones", "BD_Programas", "BD_Metas"} |->
        CASE n = "BD_Jurisdicciones" -> <<"bd_jurisdiccion">>
          [] n = "BD_Programas" -> <<"bd_programas">>
          [] n = "BD_Metas" -> <<"bd_metas">>]
\* _with_fallback
with_fallback(name) == <<name>> \o TABLE_FALLBACKS[name]

\* what the two upsert calls on a candidate table do: the call with
\* on_conflict, and the call without it that follows a TypeError
CallOutcome(first, retry) == [first |-> first, retry |-> retry]
CallOutcomes ==
    {CallOutcome(f, "") : f \in {"ok", "PGRST205", "APIError"}}
        \cup {CallOutcome("TypeError", r) : r \in {"ok", "PGRST205", "APIError", "TypeError"}}

\* `if exc.code != "PGRST205": raise`
NextTableOn(code) == code = "PGRST205"

UpsertInputs ==
    {[HelperCall("upsert") EXCEPT !.name = n, !.rows = rows, !.outcomes = <<o1, o2>>] :
        n \in DOMAIN TABLE_FALLBACKS, rows \in {<<>>, <<1>>},
        o1 \in CallOutcomes, o2 \in CallOutcomes}

\* `if not rows: return`
UpsertStart ==
    /\ helper.fn = "upsert"
    /\ helper.status = "start"
    /\ helper' = [helper EXCEPT
                     !.status = IF helper.rows = <<>> THEN "returned" ELSE "loop"]
    /\ UNCHANGED <<ex_vars, run_vars, scan>>

\* `for name in _with_fallback(...)`: one candidate table
UpsertTry ==
    /\ helper.fn = "upsert"
    /\ helper.status = "loop"
    /\ helper.i <= Len(with_fallback(helper.name))
    /\ LET table == with_fallback(helper.name)[helper.i]
           outcome == helper.outcomes[helper.i]
           Written == [helper EXCEPT !.wrote = Append(@, table), !.status = "returned"]
           Failed(code) ==
               IF code # "TypeError" /\ NextTableOn(code)
               THEN [helper EXCEPT !.i = @ + 1]
               ELSE [helper EXCEPT !.status = "raised"]
       IN  helper' =
               CASE outcome.first = "ok" -> Written
                 [] outcome.first = "TypeError" /\ outcome.retry = "ok" -> Written
                 [] outcome.first = "TypeError" -> Failed(outcome.retry)
                 [] OTHER -> Failed(outcome.first)
    /\ UNCHANGED <<ex_vars, run_vars, scan>>

\* the loop ended with no table written: the function ends, returning None
UpsertFallOff ==
    /\ helper.fn = "upsert"
    /\ helper.status = "loop"
    /\ helper.i > Len(with_fallback(helper.name))
    /\ helper' = [helper EXCEPT !.status = "returned"]
    /\ UNCHANGED <<ex_vars, run_vars, scan>>

HelperInit == helper \in RouterInputs \cup ReclassifyInputs \cup UpsertInputs

HelperNext ==
    \/ ExtractPageTexts
    \/ RoutePage
    \/ RouteReturn
    \/ ReclassifyStart
    \/ ReclassifyLoop
    \/ ReclassifyReturn
    \/ UpsertStart
    \/ UpsertTry
    \/ UpsertFallOff

-----------------------------------------------------------------------------
(* Specifications *)

\* The extractors alone, the orchestrators idle.
InitExtract == ExInit /\ OrIdle /\ scan = ScanIdle
           /\ helper = HelperIdle
           /\ unique_keys = TRUE
SpecExtract == InitExtract /\ [][ExNext]_vars

\* The orchestrators alone, the extractors idle.
Init == OrInit /\ other = OtherIdle /\ ExIdle /\ scan = ScanIdle
           /\ helper = HelperIdle
           /\ unique_keys = TRUE
Spec == Init /\ [][OrNext]_vars

\* The orchestrators on a store whose tables lack the unique constraints.
InitDrift == OrInit /\ other = OtherIdle /\ ExIdle /\ scan = ScanIdle
           /\ helper = HelperIdle
           /\ unique_keys = FALSE
SpecDrift == InitDrift /\ [][OrNext]_vars

\* Two runs of run_document on different documents, interleaved.
SpecConc == InitConc /\ [][ConcNext]_vars

\* run_document on d1 has parsed the document and is about to write, as a
\* second run_document on the same document starts; the document has no
\* programs section and both runs parse the same rows from it.
InitSameDoc ==
    /\ unique_keys \in BOOLEAN
    /\ dry_run = FALSE
    /\ agent = AgentIdle
    /\ orch = "run_document"
    /\ doc_id = "d1"
    /\ pc = Step("flat_delete", "bd_recursos")
    /\ parsed = [EmptyParsed EXCEPT !.flat_n = FlatOnlyInput.flat_n]
    /\ doc_status = [InitialStatus EXCEPT !["d1"] = "Procesando"]
    /\ doc_error = [d \in Docs |-> NoExc]
    /\ bd_jurisdiccion = SeedJurisdiccion
    /\ bd_programas = SeedProgramas
    /\ bd_metas = SeedMetas
    /\ metas_staging = <<>>
    /\ flat = SeedFlat
    /\ next_id = SeedNextId
    /\ juri_rows = <<>>
    /\ juri_map = EmptyMap
    /\ prog_rows = <<>>
    /\ program_mapping = EmptyMap
    /\ metas_rows = <<>>
    /\ metas_unresolved = <<>>
    /\ warnings = <<>>
    /\ exc = NoExc
    /\ result = NoResultYet
    /\ raised = NoExc
    /\ was_processing = TRUE
    /\ written = EmptyWritten
    /\ fk_action = "unobserved"
    /\ other = [OtherIdle EXCEPT !.pc = 1, !.doc = "d1", !.input = FlatOnlyInput]
    /\ ExIdle
    /\ scan = ScanIdle
    /\ helper = HelperIdle
SpecSameDoc == InitSameDoc /\ [][ConcNext]_vars

\* The parsers alone, on every text.
InitParse == ScanInit /\ OrIdle /\ ExIdle /\ unique_keys = TRUE
           /\ helper = HelperIdle
SpecParse == InitParse /\ [][ParseNext]_vars

\* The helper functions alone, on every input.
InitHelper == HelperInit /\ OrIdle /\ ExIdle /\ scan = ScanIdle
           /\ unique_keys = TRUE
SpecHelper == InitHelper /\ [][HelperNext]_vars

-----------------------------------------------------------------------------
(* Properties of the LLM extractor *)

RECURSIVE SumSeq(_)
SumSeq(s) == IF s = <<>> THEN 0 ELSE s[1] + SumSeq(Tail(s))

\* The exception the i-th call raised (NoError when it returned).
CallException(i) ==
    IF calls[i].api = "native" THEN NativeException(calls[i].outcome)
                               ELSE ChatException(calls[i].outcome)

\* The attempts that failed: a call of the attempt raised into the handler.
FailedAttempts ==
    {calls[i].attempt : i \in {j \in 1..Len(calls) :
        CallException(j) # NoError /\ ~IsDowngradeSignal(CallException(j))}}

\* The backoff schedule after n failed attempts: retry_sleep_sec * i, i = 1..n.
Backoff(n) == [i \in 1..n |-> retry_sleep_sec * i]

\* C2: when every attempt fails the extractor makes exactly max_retries + 1
\* attempts, sleeps retry_sleep_sec * i after the i-th failure for
\* i = 1..max_retries (none after the last), and raises exactly one wrapped
\* error whose cause is the last attempt's exception; every kind of exception
\* is retried alike.
C2_ExhaustedRetries ==
    /\ ex_pc \in {"try", "chat"} =>
          /\ FailedAttempts = 0..(attempt - 1)
          /\ sleeps = Backoff(attempt)
          /\ ex_raised = <<>>
    /\ ex_pc = "raised" =>
          /\ FailedAttempts = 0..max_retries
          /\ sleeps = Backoff(max_retries)
          /\ Len(ex_raised) = 1
          /\ ex_raised[1].wrapped
          /\ ex_raised[1].cause = CallException(Len(calls))
          /\ calls[Len(calls)].attempt = max_retries

\* C2 witness: a budget of 2 is exhausted by three failures of three kinds.
C2_Witness ==
    /\ ex_pc = "raised"
    /\ max_retries = 2
    /\ retry_sleep_sec = 3
    /\ sleeps = <<3, 6>>
    /\ {CallException(i) : i \in 1..Len(calls)} =
          {"APIConnectionError", "ValidationError", "JSONDecodeError"}

\* C3: every payload the extractor returns was validated against the schema
\* (and so conforms to it), on the native path as on the chat path.
C3_ReturnedPayloadValidated ==
    ex_pc = "returned" => (ex_result.validated /\ ex_result.schema_ok)

\* C4: after a native call raised a TypeError naming response_format, the
\* chat call is used for that attempt and every later one, the native call is
\* never made again, every chat prompt carries the schema, and what is
\* returned was validated client-side.
C4_PermanentDowngrade ==
    \A i \in 1..Len(calls) :
        IsDowngradeSignal(CallException(i)) =>
            /\ \A j \in (i + 1)..Len(calls) :
                    calls[j].api = "chat" /\ calls[j].schema_in_prompt
            /\ i < Len(calls) => calls[i + 1].attempt = calls[i].attempt
            /\ i = Len(calls) => (ex_pc = "chat" /\ ~use_responses)
            /\ ex_pc = "try" => ~use_responses
            /\ ex_pc = "returned" => (ex_result.validated /\ ex_result.schema_ok)

\* C4 witness: a downgrade, a failed chat attempt, then a chat attempt that returns.
C4_Witness ==
    /\ ex_pc = "returned"
    /\ Len(calls) = 3
    /\ IsDowngradeSignal(CallException(1))
    /\ calls[2].api = "chat" /\ calls[2].attempt = 0
    /\ calls[3].api = "chat" /\ calls[3].attempt = 1

\* C5: when the first k attempts fail and attempt k+1 succeeds, the extractor
\* returns that attempt's payload, makes no further call, and has slept
\* retry_sleep_sec * (1 + ... + k) in total.
C5_SuccessAfterKFailures ==
    ex_pc = "returned" =>
        LET k == Cardinality(FailedAttempts) IN
        /\ k <= max_retries
        /\ ex_result.call = Len(calls)
        /\ calls[Len(calls)].attempt = k
        /\ SumSeq(sleeps) = (retry_sleep_sec * k * (k + 1)) \div 2
        /\ sleeps = Backoff(k)
        /\ ex_raised = <<>>
        /\ ~ENABLED ExNext

\* C5 witness: max_retries = 2, two failures, then success: slept rs*1 + rs*2.
C5_Witness ==
    /\ ex_pc = "returned"
    /\ max_retries = 2
    /\ Cardinality(FailedAttempts) = 2
    /\ SumSeq(sleeps) = retry_sleep_sec * 1 + retry_sleep_sec * 2

-----------------------------------------------------------------------------
(* Properties of the orchestrators *)

Returned == pc = Step("returned", "")

\* C1: when run_document returns after having set the status 'Procesando',
\* the document's status is 'Procesado' or 'Error'; and when it is 'Error'
\* the stored message is the exception's message and the result is the
\* failure {ok: False, error: message}.
C1_NeverLeftProcessing ==
    (orch = "run_document" /\ Returned /\ was_processing) =>
        /\ doc_status[doc_id] \in {"Procesado", "Error"}
        /\ doc_status[doc_id] = "Error" =>
               /\ doc_error[doc_id] = exc
               /\ result = [ok |-> FALSE, error |-> exc, returned |-> TRUE]

\* C6: in run_single_shot, run_single_shot_xlsx and main, when an exception
\* propagates to the caller the document's status has been set to error, with
\* the exception's message.
C6_ErrorStatusBeforePropagation ==
    (orch \in LlmOrchestrators /\ pc = Step("raised", "") /\ doc_id # "") =>
        doc_status[doc_id] = "Error" /\ doc_error[doc_id] = raised

\* The run is past the step `op` of its program, not having left it by an
\* exception.
AfterStep(op) ==
    /\ Returned => result.ok
    /\ \E i, k \in 1..Len(Program) : Program[i].op = op /\ Program[k] = pc /\ i < k

WarningNames(kinds) ==
    LET ws == SelectSeq(warnings, LAMBDA w : w.kind \in kinds)
    IN [i \in 1..Len(ws) |-> ws[i].name]

\* The program's parsed jurisdiction key is the key of jurisdiction j.
KeyMatches(pkey, j) == JuriKey(j) = Strip(pkey)

\* No jurisdiction of the run's document has the parsed program's key.
Unmatched(p) ==
    ~\E j \in Range(bd_jurisdiccion) : j.doc = doc_id /\ KeyMatches(ProgKey(p), j)

ProgramsMapped == AfterStep("juri_fetch") \/ AfterStep("ss_juri_fetch")

\* C7: every Program row a run of run_document or run_single_shot persists
\* (or holds to persist) carries the id of a jurisdiction of the run's
\* document whose key is the program's parsed jurisdiction key; the parsed
\* programs whose key matches no jurisdiction of the document are exactly the
\* ones left out, and each gives one 'Programa sin jurisdiccion' warning.
C7_ProgramJurisdiction ==
    orch \in {"run_document", "run_single_shot"} =>
        /\ \A p \in Range(written.bd_programas) \cup Range(prog_rows) :
              \E j \in Range(bd_jurisdiccion) :
                  j.id = p.juri /\ j.doc = doc_id /\ KeyMatches(p.pkey, j)
        /\ ProgramsMapped =>
              LET dropped == SelectSeq(parsed.programas, Unmatched)
                  kept == SelectSeq(parsed.programas, LAMBDA p : ~Unmatched(p))
              IN /\ WarningNames({"Programa sin jurisdiccion"})
                        = [i \in 1..Len(dropped) |-> dropped[i].name]
                 /\ [i \in 1..Len(prog_rows) |-> prog_rows[i].pkey]
                        = [i \in 1..Len(kept) |-> ProgKey(kept[i])]

\* A single-shot run has persisted a program whose jurisdiction code came
\* padded, and has dropped another with its warning.
C7_Witness ==
    /\ orch = "run_single_shot"
    /\ \E p \in Range(written.bd_programas) : p.pkey = " J1"
    /\ WarningNames({"Programa sin jurisdiccion"}) # <<>>

\* The jurisdiction code and program code of a stored program.
ProgPair(p) ==
    <<IF p.juri = NoId THEN Strip(p.jcode)
      ELSE (CHOOSE j \in Range(bd_jurisdiccion) : j.id = p.juri).code,
      Strip(p.code)>>
GoalPair(g) == <<Strip(g.jcode), Strip(g.code)>>

\* The stored programs of the run's document.
DocProgramas ==
    {p \in Range(bd_programas) :
        \/ p.doc = doc_id
        \/ \E j \in Range(bd_jurisdiccion) : j.id = p.juri /\ j.doc = doc_id}

\* C8 as stated: every Goal row persisted by a run references a program whose
\* (jurisdiction code, program code) equals the goal's own.
C8_GoalProgramKey ==
    \A r \in Range(written.bd_metas) :
        \E p \in Range(bd_programas) :
            p.id = r.prog /\ ProgPair(p) = GoalPair(r.goal)

\* C8, amended: every Goal row persisted by a run references a program of the
\* run's document; when the goal carries both codes and the document has a
\* program with that pair, the referenced program has that pair; otherwise
\* the referenced program has the goal's program code or its normalized
\* program name (the resolver's fallbacks).
C8_GoalProgramResolution ==
    \A r \in Range(written.bd_metas) :
        \E p \in DocProgramas :
            /\ p.id = r.prog
            /\ IF /\ Strip(r.goal.jcode) # "" /\ Strip(r.goal.code) # ""
                  /\ \E q \in DocProgramas : ProgPair(q) = GoalPair(r.goal)
               THEN ProgPair(p) = GoalPair(r.goal)
               ELSE \/ Strip(p.code) # "" /\ Strip(p.code) = Strip(r.goal.code)
                    \/ Norm(p.name) # "" /\ Norm(p.name) = Norm(r.goal.pname)

\* run_document has persisted a goal on a program found by name, whose
\* program code is not the goal's.
C8_Witness ==
    /\ orch = "run_document"
    /\ \E r \in Range(written.bd_metas) :
          \E p \in Range(bd_programas) :
              p.id = r.prog /\ Strip(p.code) # Strip(r.goal.code)

GoalsResolved == AfterStep("map_metas") \/ AfterStep("extract_metas")

Count(x, seq) == Cardinality({i \in 1..Len(seq) : seq[i] = x})

\* C9: once the resolver has run (_map_metas, extract_metas), every goal of
\* the payload is in exactly one of its outputs: as many times in resolved
\* and unresolved together as in the input, so the sizes add up.
C9_ResolverPartitions ==
    (orch \in LlmOrchestrators /\ GoalsResolved) =>
        LET resolved == [i \in 1..Len(metas_rows) |-> metas_rows[i].goal]
        IN /\ Len(resolved) + Len(metas_unresolved) = Len(parsed.metas)
           /\ \A g \in PayloadMetaSet :
                 Count(g, resolved) + Count(g, metas_unresolved) = Count(g, parsed.metas)

\* The resolver has put one goal in each output.
C9_Witness ==
    /\ orch \in LlmOrchestrators /\ GoalsResolved
    /\ metas_rows # <<>> /\ metas_unresolved # <<>>

\* C10: in run_document and ingest_rafam_xlsx, a goal warned about as having
\* no program is retained in an unresolved side-channel (the unresolved rows
\* returned to the caller, or the staging destination).
C10_UnresolvedGoalRetained ==
    orch \in {"run_document", "ingest_rafam_xlsx"} =>
        \A w \in Range(warnings) :
            w.kind \in {"No se encontro programa para meta", "Meta sin programa"} =>
                \E g \in Range(metas_unresolved) \cup Range(metas_staging) :
                    g.name = w.name

\* One lookup of the stated order, keyed only when the goal carries its parts.
Lookup(mapping, key, present) == IF present THEN Get(mapping, key) ELSE NoId

\* The four lookups in the stated order, each one tried when the earlier
\* ones miss.
FourLookups(mapping, g) ==
    LET j == Strip(g.jcode)
        p == Strip(g.code)
        n == Strip(g.pname)
    IN Or(Lookup(mapping, <<"pair", j, p>>, j # "" /\ p # ""),
       Or(Lookup(mapping, <<"code", p>>, p # ""),
       Or(Lookup(mapping, <<"juri_nombre", j, Norm(n)>>, j # "" /\ n # ""),
          Lookup(mapping, <<"nombre", Norm(n)>>, n # ""))))

\* C11: once extract_metas has resolved the goals of an ingest run, each
\* goal's outcome is the first hit of the four lookups taken in order (pair,
\* program code, (jurisdiction, normalized name), normalized name): a
\* resolved goal carries that program, and a goal is unresolved only when
\* all four lookups miss, also when it carries both codes.
C11_LookupOrder ==
    (orch = "ingest_main" /\ AfterStep("extract_metas")) =>
        /\ \A r \in Range(metas_rows) : r.prog = FourLookups(program_mapping, r.goal)
        /\ \A g \in Range(metas_unresolved) : FourLookups(program_mapping, g) = NoId

\* The rows of a flat table that belong to a document.
FlatOf(t, doc) == SelectSeq(flat[t], LAMBDA r : r.doc = doc)

\* The run wrote to the store and returned without error (a dry run of
\* ingest_rafam_xlsx returns at Step("returned", "dry_run")).
Succeeded == Returned /\ result.ok

\* C12: after a successful run of run_document or ingest_rafam_xlsx, on a
\* fresh or on an already ingested document, each of the five flat tables
\* holds for that document exactly the rows of this run, each once: no
\* row of the earlier run survives and none is duplicated.
C12_FlatRowsReplaced ==
    (orch \in {"run_document", "ingest_rafam_xlsx"} /\ Succeeded) =>
        \A t \in FlatTables : FlatOf(t, doc_id) = FlatRows(parsed.flat_n)

\* A re-run on the ingested document whose input has no flat rows has
\* succeeded, and the other documents' tables saw no change.
C12_Witness ==
    /\ orch \in {"run_document", "ingest_rafam_xlsx"} /\ Succeeded
    /\ doc_id = "d2" /\ parsed.flat_n = 0
    /\ \A t \in FlatTables : FlatOf(t, "d2") = <<>> /\ SeedFlat[t] # <<>>

\* C13: after a successful run_single_shot, on a fresh or on an already
\* ingested document, the five flat tables hold for the document exactly the
\* rows of the new extraction: a row of the previous run that the new
\* extraction lacks does not survive.
C13_SingleShotReplacesFlatRows ==
    (orch = "run_single_shot" /\ Succeeded) =>
        \A t \in FlatTables : FlatOf(t, doc_id) = FlatRows(parsed.flat_n)

\* A row without its store-assigned identifier.
NoIdRow(r) == [r EXCEPT !.id = NoId]
NoIds(rows) == [i \in 1..Len(rows) |-> NoIdRow(rows[i])]

\* The programs stored under the jurisdictions of a document, and the goals
\* stored under those programs.
ProgramasOfDoc(doc) ==
    SelectSeq(bd_programas,
              LAMBDA p : \E j \in Range(bd_jurisdiccion) : j.id = p.juri /\ j.doc = doc)
MetasOfDoc(doc) ==
    SelectSeq(bd_metas, LAMBDA g : \E p \in Range(ProgramasOfDoc(doc)) : p.id = g.prog)

\* Every Program references a stored Jurisdiction, every Goal a stored Program.
NoOrphans ==
    /\ \A p \in Range(bd_programas) : \E j \in Range(bd_jurisdiccion) : j.id = p.juri
    /\ \A g \in Range(bd_metas) : \E p \in Range(bd_programas) : p.id = g.prog

\* C14: a second run_document on the already ingested document, against a
\* store that enforces the foreign keys, is not failed by them, and when it
\* succeeds the cross-referenced tables hold for the document what one run
\* on this input leaves: its jurisdictions, its programs and its goals, each
\* once, and no Program or Goal references a deleted parent.
C14_RerunCrossReferenced ==
    (orch = "run_document" /\ doc_id = "d2" /\ Returned /\ fk_action # "unenforced") =>
        /\ result.error.msg # FkViolation
        /\ result.ok =>
              /\ NoIds(FetchJurisdiccion("d2")) = juri_rows
              /\ [i \in 1..Len(ProgramasOfDoc("d2")) |->
                     [ProgramasOfDoc("d2")[i] EXCEPT !.id = NoId, !.tiene_metas = FALSE]]
                     = prog_rows
              /\ MetasOfDoc("d2") = metas_rows
              /\ NoOrphans

\* The rows that belong to a document, and its status.
RowsOf(doc) ==
    [flat |-> [t \in FlatTables |-> FlatOf(t, doc)],
     juri |-> FetchJurisdiccion(doc),
     prog |-> ProgramasOfDoc(doc),
     metas |-> MetasOfDoc(doc),
     status |-> doc_status[doc]]

\* Rows without their identifiers: a jurisdiction by code and name, a program
\* by its jurisdiction, code and name, a goal by its program and name.
JuriShape(j) == <<j.code, j.name>>
ProgShape(p, juris) ==
    <<JuriShape(CHOOSE j \in Range(juris) : j.id = p.juri), p.code, p.name>>
MetaShape(g, progs, juris) ==
    <<ProgShape(CHOOSE p \in Range(progs) : p.id = g.prog, juris), g.name>>
Shapes(juris, progs, metas) ==
    [juri |-> [i \in 1..Len(juris) |-> JuriShape(juris[i])],
     prog |-> [i \in 1..Len(progs) |-> ProgShape(progs[i], juris)],
     metas |-> [i \in 1..Len(metas) |-> MetaShape(metas[i], progs, juris)]]

\* What run_document leaves for a document when it runs alone on this input.
AloneShapes(input, doc) ==
    LET jr == WithIds(BuildJuriRows(input.jurisdicciones, doc, {}, <<>>), 1)
        jmap == BuildJuriMap(jr, EmptyMap)
        pr == WithIds(MapProgramas(input.programas, jmap,
                                   [rows |-> <<>>, warnings |-> <<>>]).rows, Len(jr) + 1)
        mr == MapMetas(input.metas, BuildProgLookup(pr, jmap, EmptyMap),
                       [rows |-> <<>>, warnings |-> <<>>]).rows
    IN [rows |-> Shapes(jr, pr, mr),
        flat |-> [t \in FlatTables |-> [i \in 1..input.flat_n |-> [doc |-> doc, k |-> i]]]]

StoredShapes(doc) ==
    [rows |-> Shapes(FetchJurisdiccion(doc), ProgramasOfDoc(doc), MetasOfDoc(doc)),
     flat |-> [t \in FlatTables |-> FlatOf(t, doc)]]

\* A step of one run leaves the other document's rows and status as they were.
NoInterferenceStep ==
    /\ pc' # pc => RowsOf(OtherDoc)' = RowsOf(OtherDoc)
    /\ other' # other => RowsOf("d1")' = RowsOf("d1")

\* A run that has succeeded has left for its document what it leaves alone.
AsIfAlone ==
    /\ Succeeded => StoredShapes(doc_id) = AloneShapes(parsed, doc_id)
    /\ other.pc = OtherDone => StoredShapes(OtherDoc) = AloneShapes(OtherInput, OtherDoc)

-----------------------------------------------------------------------------
(***************************************************************************)
(* The section of a text, read off the text alone.                         *)
(***************************************************************************)
IsStartOf(parser, low) ==
    CASE parser = "recursos" -> recursos_IsStart(low)
      [] parser = "gastos" -> gastos_IsStart(low)
      [] parser = "programas" -> programas_IsStart(low)
      [] parser = "metas" -> metas_IsStart(low)
      [] parser = "movimientos" -> movimientos_IsStart(low)
      [] parser = "cuentas" -> cuentas_IsStart(low)
      [] parser = "sitpat" -> sitpat_IsStart(low)
EndKeywordsOf(parser) ==
    CASE parser = "recursos" -> recursos_SECTION_END_KEYWORDS
      [] parser = "gastos" -> gastos_SECTION_END_KEYWORDS
      [] parser = "programas" -> programas_SECTION_END_KEYWORDS
      [] parser = "metas" -> metas_SECTION_END_KEYWORDS
      [] parser = "movimientos" -> movimientos_SECTION_END_KEYWORDS
      [] parser = "cuentas" -> cuentas_SECTION_END_KEYWORDS
      [] parser = "sitpat" -> sitpat_SECTION_END_KEYWORDS

\* normalize_key(normalize_name(raw)) of every line of a text
RECURSIVE KeysFrom(_, _)
KeysFrom(text, k) ==
    IF k > Len(text) THEN <<>>
    ELSE <<normalize_key(normalize_name(text[k]))>> \o KeysFrom(text, k + 1)
StartLinesOf(parser, keys) == {k \in 1..Len(keys) : IsStartOf(parser, keys[k])}
EndLinesOf(parser, keys) ==
    {k \in 1..Len(keys) : \E w \in EndKeywordsOf(parser) : Contains(keys[k], w)}
LeastOr(lines, none) == IF lines = {} THEN none ELSE Min(lines)
\* <<the first start-marker line, the first end-marker line after it>>, each
\* one past the text when there is none
Section(s) ==
    LET Ends(start, ends) == <<start, LeastOr({k \in ends : k > start}, Len(s.text) + 1)>>
        Starts(keys) ==
            Ends(LeastOr(StartLinesOf(s.parser, keys), Len(s.text) + 1),
                 EndLinesOf(s.parser, keys))
    IN  Starts(KeysFrom(s.text, 1))
FirstStart(s) == Section(s)[1]
FirstEnd(s) == Section(s)[2]
\* the start marker comes again after the section, followed by one more line
StartsAgain(s) ==
    \E k \in StartLinesOf(s.parser, KeysFrom(s.text, 1)) :
        k > FirstEnd(s) /\ k < Len(s.text)

\* what a parser has collected for its result
Collected(s) == <<s.rows, s.found, s.jurisdicciones>>

InsideSection(section, i) == section[1] < i /\ i < section[2]
NotPastSection(section, s) ==
    /\ s.i <= section[2] + 1
    /\ s.status = "loop" => s.i <= section[2]

\* C16: in every deterministic parser only a line after the first
\* start-marker line and before the first end-marker line that follows it
\* adds to what the parser collects, and the line of that end marker is the
\* last line the loop looks at: whatever comes after it, a row line or the
\* start marker again, is never read.
C16_LoopStep ==
    (scan.status = "loop" /\ scan.i <= Len(scan.text) /\ Collected(scan)' # Collected(scan))
        => InsideSection(Section(scan), scan.i)
C16_AfterSectionTerminal == NotPastSection(Section(scan), scan')
C16_RowsOnlyInsideFirstSection == [][C16_LoopStep /\ C16_AfterSectionTerminal]_vars

\* a parser returned rows from a text whose section ended before the last
\* line, with the start marker and one more line after the end marker
C16_Witness ==
    /\ scan.status = "returned"
    /\ scan.rows # <<>>
    /\ StartsAgain(scan)
    /\ scan.i = FirstEnd(scan) + 1

\* C17: whatever the lines of the text are (malformed amounts, missing
\* codes, stray numeric tokens, no section at all), no line makes a parser
\* raise: a run is in its loop, past it, or has returned.
C17_NoExceptionEscapes ==
    /\ scan.status \in {"loop", "break", "returned"}
    /\ scan.status = "returned" => scan.i <= Len(scan.text) + 1

\* a parser returned rows from a text with a malformed line in its section
C17_Witness ==
    /\ scan.status = "returned"
    /\ scan.rows # <<>>
    /\ \E k \in 1..Len(scan.text) :
        /\ scan.text[k] \in Malformed
        /\ InsideSection(Section(scan), k)

\* the warnings that say a parser found nothing
NothingFound(notes) ==
    {k \in 1..Len(notes) : StartsWith(notes[k], "No se encontr")}

\* C18: a parser that reaches the end of its input with no rows, its start
\* marker absent or not, returns with exactly one warning saying so.
C18_ZeroRowsWarned ==
    (scan.status = "returned" /\ scan.rows = <<>>)
        => Cardinality(NothingFound(scan.warnings)) = 1

\* the kinds of movement other than the closing balance, and the summary types
MovementKinds ==
    {"Saldo Inicial", "Ingresos del Periodo", "Ingresos de Ajustes Contables",
     "Gastos del Periodo", "Egresos de Ajustes Contables"}
SummaryTypes == {"Saldo Inicial", "Ingreso", "Egreso"}
RowsOfKind(rows, kind) == {k \in 1..Len(rows) : rows[k].MovTes_Tipo = kind}

\* C19: from a treasury section with the six canonical lines the parser
\* returns one movement for each of the opening balance, the income of
\* the period, the income adjustments, the expense of the period and the
\* expense adjustments, each tagged with one of the three summary types.
C19_EveryKindKept ==
    (/\ scan.parser = "movimientos"
     /\ scan.status = "returned"
     /\ scan.text = <<"Movimientos de Tesoreria">> \o TreasuryLines)
        => /\ \A kind \in MovementKinds : Cardinality(RowsOfKind(scan.rows, kind)) = 1
           /\ \A k \in 1..Len(scan.rows) : scan.rows[k].MovTes_TipoResumido \in SummaryTypes

\* the program row and the jurisdiction row the line of a form stands for
ProgramOf(form) ==
    [Juri_Codigo |-> form.juri, Prog_Codigo |-> form.prog, Prog_Nombre |-> form.name,
     Prog_Vigente |-> form.amounts[1].value, Prog_Preventivo |-> form.amounts[2].value,
     Prog_Compromiso |-> form.amounts[3].value, Prog_Devengado |-> form.amounts[4].value,
     Prog_Pagado |-> form.amounts[5].value]
EmitsProgram(form) ==
    /\ scan'.rows = Append(scan.rows, ProgramOf(form))
    /\ Len(scan'.jurisdicciones) = Len(scan.jurisdicciones) + 1
    /\ FromEnd(scan'.jurisdicciones, 1).Juri_Codigo = form.juri

\* C20: in the section, a line '<10-digit jurisdiction code> <program code>
\* <name> a1 a2 a3 a4 a5' whose name is not that of a total row adds exactly
\* one program row with that jurisdiction code, program code and name and
\* the amounts a1..a5 as budgeted, preventive, committed, accrued and paid,
\* and one jurisdiction row with that code.
C20_CodedLineStep ==
    \A form \in CodedForms :
        (/\ InLoop("programas")
         /\ scan.in_section
         /\ scan.text[scan.i] = CodedLine(form)
         /\ ~is_total_row(form.name))
            => EmitsProgram(form)
C20_CodedLineEmitsProgram == [][C20_CodedLineStep]_vars

\* the numbered category header a line is, read off its key
HeaderKind(low) ==
    IF SubSeq(low \o "  ", 1, 2) = "2." /\ Contains(low, "extrapresupuest") THEN "extra"
    ELSE IF SubSeq(low \o "  ", 1, 2) = "1." /\ Contains(low, "presupuest") THEN "presup"
    ELSE "none"
\* the kind of the last category header among the lines of the section up to line i
LastHeaderKind(s, i) ==
    LET Last(keys, headers) ==
            IF headers = {} THEN "none" ELSE HeaderKind(keys[Max(headers)])
        Headers(keys, section) ==
            Last(keys, {k \in 1..i : InsideSection(section, k) /\ HeaderKind(keys[k]) # "none"})
    IN  Headers(KeysFrom(s.text, 1), Section(s))
CategoryName(parser, kind) ==
    CASE kind = "none" -> None
      [] parser = "recursos" /\ kind = "presup" -> "Presupuestario"
      [] parser = "recursos" /\ kind = "extra" -> "Extrapresupuestario"
      [] parser = "gastos" /\ kind = "presup" -> "Presupuestarios"
      [] parser = "gastos" /\ kind = "extra" -> "Extrapresupuestarios"
CategoryOf(parser, row) == IF parser = "recursos" THEN row.Rec_Tipo ELSE row.Gasto_Categoria

\* C26: in the resources and the expenses parser the type of every row
\* equals the category of the last numbered category header of the section
\* at or before the row's line, however many lines lie between the two.
C26_RowStep ==
    (/\ scan.parser \in {"recursos", "gastos"}
     /\ scan.status = "loop"
     /\ scan.i <= Len(scan.text)
     /\ Len(scan'.rows) > Len(scan.rows))
        => CategoryOf(scan.parser, FromEnd(scan'.rows, 1))
               = CategoryName(scan.parser, LastHeaderKind(scan, scan.i))
ExpectedAmounts(parser) == IF parser = "recursos" THEN 3 ELSE 5
\* the number of amounts on a line
AmountCount(raw) == Len(find_amounts(normalize_name(raw)))
WrongAmountCount(parser, raw) ==
    LET Wrong(n) == n >= 1 /\ n # ExpectedAmounts(parser)
    IN  Wrong(AmountCount(raw))

\* C27: in the resources, the expenses and the programs parser a line of
\* the section that carries amounts, but not as many as a row has (three in
\* the resources parser, five in the other two), adds no row and adds one
\* warning, and the loop goes on with the next line.
C27_WrongCountStep ==
    (/\ scan.parser \in {"recursos", "gastos", "programas"}
     /\ scan.status = "loop"
     /\ scan.i <= Len(scan.text)
     /\ InsideSection(Section(scan), scan.i)
     /\ WrongAmountCount(scan.parser, scan.text[scan.i]))
        => /\ scan'.rows = scan.rows
           /\ Len(scan'.warnings) = Len(scan.warnings) + 1
           /\ scan'.status = "loop"
C27_WrongCountSkippedWithWarning == [][C27_WrongCountStep]_vars

\* the text of a line before its amounts: the line with its amounts taken out
LeadingText(raw) == normalize_name(AmountSub(normalize_name(raw)))
StartsWithTotal(raw) == StartsWith(Lower(LeadingText(raw)), "total")

\* C28: in no deterministic parser does a line whose leading text (its
\* amounts taken out) starts with 'total', in any case of letters, add to
\* what the parser collects.
C28_TotalStep ==
    (/\ scan.status = "loop"
     /\ scan.i <= Len(scan.text)
     /\ StartsWithTotal(scan.text[scan.i]))
        => Collected(scan)' = Collected(scan)
C28_TotalLinesDiscarded == [][C28_TotalStep]_vars

\* the rows of a jurisdiction list that carry the code
JurisdictionsOf(rows, code) ==
    {k \in 1..Len(rows) : "Juri_Codigo" \in DOMAIN rows[k] /\ rows[k].Juri_Codigo = code}

\* C29: the jurisdiction list the programs parser returns has at most one
\* row for each jurisdiction code, however many program lines have the code.
C29_OneJurisdictionPerCode ==
    (scan.parser = "programas" /\ scan.status = "returned")
        => \A k \in 1..Len(scan.jurisdicciones) :
              "Juri_Codigo" \in DOMAIN scan.jurisdicciones[k]
                  => Cardinality(JurisdictionsOf(scan.jurisdicciones,
                                                 scan.jurisdicciones[k].Juri_Codigo)) = 1

\* the lines of the section before line i that match the composite program
\* header pattern
PatternLinesBefore(s, i) ==
    LET Inside(section) ==
            {k \in 1..(i - 1) :
                InsideSection(section, k) /\ PROG_HEADER_RE(normalize_name(s.text[k])) # <<>>}
    IN  Inside(Section(s))
\* a line of column titles: it has both 'programado' and 'diferencia'
IsColumnTitles(raw) ==
    LET Titles(low) == Contains(low, "programado") /\ Contains(low, "diferencia")
    IN  Titles(normalize_key(raw))
\* those of them that are not lines of column titles
HeadersBefore(s, i) == {k \in PatternLinesBefore(s, i) : ~IsColumnTitles(s.text[k])}
HeaderAt(s, k) == PROG_HEADER_RE(normalize_name(s.text[k]))
CarriesHeader(row, header) ==
    /\ row.Juri_Codigo = header[1]
    /\ row.Prog_Codigo = header[2]
IsGoalStep ==
    /\ scan.parser = "metas"
    /\ scan.status = "loop"
    /\ scan.i <= Len(scan.text)
    /\ Len(scan'.rows) > Len(scan.rows)

\* C30 (as stated): every goal row the goals parser emits carries the
\* jurisdiction code and the program code of the last line before it in the
\* section that matches the composite program header pattern, and no goal
\* row is emitted while the section has had no such line.
C30_LastPatternLineStep ==
    IsGoalStep
        => /\ PatternLinesBefore(scan, scan.i) # {}
           /\ CarriesHeader(FromEnd(scan'.rows, 1),
                            HeaderAt(scan, Max(PatternLinesBefore(scan, scan.i))))
C30_GoalUnderLastPatternLine == [][C30_LastPatternLineStep]_vars

\* C30 (amended): every goal row the goals parser emits carries the
\* jurisdiction code and the program code of the last composite program
\* header before its line in the section, a header being a line that
\* matches the pattern and is not a line of column titles; no goal row is
\* emitted while the section has had no header.
C30_GoalStep ==
    IsGoalStep
        => /\ HeadersBefore(scan, scan.i) # {}
           /\ CarriesHeader(FromEnd(scan'.rows, 1),
                            HeaderAt(scan, Max(HeadersBefore(scan, scan.i))))
C30_GoalUnderCurrentProgram == [][C30_GoalStep]_vars

\* goals of two programs were returned from a section whose first goal line
\* comes before any header
C30_Witness ==
    /\ scan.parser = "metas"
    /\ scan.status = "returned"
    /\ Len(scan.rows) >= 2
    /\ scan.rows[1].Prog_Codigo # scan.rows[2].Prog_Codigo
    /\ HeadersBefore(scan, 3) = {}

\* the last token of a line, as written
LastToken(line) == FromEnd(Split(line), 1)
\* a locale-formatted amount, bare or wrapped in a parenthesis pair, and
\* nothing else
IsAmountToken(token) ==
    LET Bare(amounts, inner) == amounts = <<inner>>
        Inner(inner) == inner # "" /\ Bare(find_amounts(inner), inner)
    IN  \/ Inner(token)
        \/ StartsWith(token, "(") /\ EndsWith(token, ")")
              /\ Inner(Slice(token, 2, Len(token) - 1))
EndsInAmountToken(line) == line # "" /\ IsAmountToken(LastToken(line))

\* C21: the amount of an account row that the accounts parser takes from a
\* line ending in an amount token is the value normalize_number gives that
\* token: '.' separates thousands, ',' decimals, and a token wrapped in a
\* parenthesis pair is the negated value.
C21_AmountStep ==
    (/\ scan.parser = "cuentas"
     /\ scan.status = "loop"
     /\ scan.i <= Len(scan.text)
     /\ Len(scan'.rows) > Len(scan.rows)
     /\ EndsInAmountToken(normalize_name(scan.text[scan.i])))
        => FromEnd(scan'.rows, 1).Cuenta_Importe
              = normalize_number(LastToken(normalize_name(scan.text[scan.i])))
C21_ParsedAmountIsNormalized == [][C21_AmountStep]_vars

\* the step of run_single_shot at `if metas_count < 50`
AtMetasOnly == orch = "run_single_shot" /\ pc = Step("metas_only", "")
\* extract_metas_only was called in the step: it returned or it raised
MetasOnlyCalled == parsed'.metas_only.called \/ pc' = Step("raised", "")
\* the goals the run goes on with after the comparison
GoalsAfterSecondPass(first, second) ==
    IF second.called /\ Len(second.bd_metas) > Len(first)
    THEN second.bd_metas
    ELSE first

\* C22: in run_single_shot the goals-only extraction is called exactly when
\* the first pass returned fewer goals than the threshold; its goals array
\* becomes the payload's array, whole, exactly when it is strictly longer
\* than the first pass's, and otherwise the first pass's array is kept as
\* it was.
C22_SecondPassStep ==
    /\ (AtMetasOnly /\ pc' # pc)
          => /\ MetasOnlyCalled <=> Len(parsed.metas) < MetasOnlyBelow
             /\ parsed'.metas = parsed.metas
    /\ (pc = Step("metas_reload", "") /\ pc' # pc)
          => parsed'.metas = GoalsAfterSecondPass(parsed.metas, parsed.metas_only)
C22_GoalsOnlySecondPass == [][C22_SecondPassStep]_vars

\* a run of run_single_shot went on with the second pass's two goals
C22_Witness ==
    /\ orch = "run_single_shot"
    /\ pc = Step("juri_upsert", "")
    /\ Len(parsed.metas) = MaxGoals
    /\ \E i \in 1..Len(warnings) :
          warnings[i].kind = "Metas recargadas en segunda pasada (metas only)."

\* the steps that call an upsert helper
UpsertSteps == {"juri_upsert", "prog_upsert", "create_progs", "metas_upsert", "flat_upsert"}
\* the rows a step gave its upsert helper and the table they go to
UpsertRowsGiven ==
    CASE pc.op = "juri_upsert" -> Len(juri_rows')
      [] pc.op = "prog_upsert" -> Len(prog_rows')
      [] pc.op = "create_progs" -> Len(bd_programas') - Len(bd_programas)
      [] pc.op = "metas_upsert" -> Len(metas_rows)
      [] pc.op = "flat_upsert" -> parsed'.flat_n
TargetGrowth ==
    CASE pc.op = "juri_upsert" -> Len(bd_jurisdiccion') - Len(bd_jurisdiccion)
      [] pc.op \in {"prog_upsert", "create_progs"} -> Len(bd_programas') - Len(bd_programas)
      [] pc.op = "metas_upsert" -> Len(bd_metas') - Len(bd_metas)
      [] pc.op = "flat_upsert" -> Len(flat'[pc.t]) - Len(flat[pc.t])
ConflictTargetTolerated ==
    /\ raised'.msg # "42P10"
    /\ pc' = After(pc) => TargetGrowth = UpsertRowsGiven

\* C23: when the target table lacks the unique constraint an upsert names,
\* the upsert of any orchestrator raises no conflict-target error to its
\* caller, and the step that goes on has written all its rows with a plain
\* insert.
C23_UpsertStep ==
    (~unique_keys /\ pc.op \in UpsertSteps /\ pc' # pc) => ConflictTargetTolerated
C23_UpsertToleratesConflictTarget == [][C23_UpsertStep]_vars

\* the positions at which a call with dry_run has come back to its caller
DryRunEnds ==
    {Step("returned", "dry_run"), Step("agent_done", "preview"),
     Step("agent_done", "ok"), Step("raised", "")}

\* C24: in a call of ingest_rafam_xlsx, cleanup_orphan_records or
\* reset_document_data with dry_run=True no step changes a table or a
\* document's status, and the call's one step ends it: it returns the parsed
\* rows or the preview (or that there is nothing to delete), or it raises.
C24_DryRunStep ==
    (dry_run /\ orch \in DryRunOps /\ pc' # pc)
        => /\ store_vars' = store_vars
           /\ pc' \in DryRunEnds
           /\ pc' # Step("raised", "") => result'.ok /\ result'.returned
C24_DryRunWritesNothing == [][C24_DryRunStep]_vars

\* a dry run of ingest_rafam_xlsx on the ingested document has returned
\* input without flat rows, and the document's stored rows are all there
C24_Witness ==
    /\ orch = "ingest_rafam_xlsx" /\ dry_run
    /\ pc = Step("returned", "dry_run")
    /\ doc_id = "d2" /\ parsed.flat_n = 0
    /\ flat = SeedFlat /\ bd_jurisdiccion = SeedJurisdiccion

\* the steps that write each of the three tables
JuriWriteSteps == {"juri_upsert", "juri_insert"}
ProgWriteSteps == {"prog_upsert", "prog_insert", "create_progs"}
MetaWriteSteps == {"metas_upsert", "metas_insert"}
\* the run's steps that precede its position
StepsBefore ==
    {Program[i].op : i \in {k \in 1..Len(Program) : \E n \in (k + 1)..Len(Program) :
                                                     Program[n] = pc}}
\* the steps of the run among `ops` are all before its position
AllBefore(ops) == {Program[i].op : i \in 1..Len(Program)} \cap ops \subseteq StepsBefore
\* the jurisdiction map a fetch at this moment gives the run
JuriMapNow ==
    CASE orch = "run_document" -> BuildJuriMap(FetchJurisdiccion(doc_id), EmptyMap)
      [] orch = "ingest_rafam_xlsx" -> RxJuriMap(FetchJurisdiccion(doc_id), EmptyMap)
      [] OTHER -> JuriMapByCode(FetchJurisdiccion(doc_id), EmptyMap)
\* the program map a fetch at this moment gives the run
ProgramMapNow ==
    CASE orch = "run_document" ->
            BuildProgLookup(FetchProgramas(Values(juri_map)), juri_map, EmptyMap)
      [] orch = "ingest_rafam_xlsx" ->
            RxProgMap(FetchProgramas(Values(juri_map)), juri_map, EmptyMap)
      [] orch = "ingest_main" ->
            ingest_build_program_mapping(FetchProgramasMapping(doc_id), EmptyMap)
      [] OTHER ->
            build_program_mapping(FetchProgramas(Values(juri_map)), juri_map, EmptyMap)

\* C25: in a run of an orchestrator, a step that writes programs comes
\* after the run's jurisdiction write and, where programs are mapped through
\* a jurisdiction map, that map is the one of the jurisdictions as the write
\* left them; a step that writes goals comes after all the run's program
\* writes and the program map the goals were resolved with is the one of
\* the programs as those writes left them.
C25_OrderedStep ==
    /\ (orch \in Orchestrators /\ pc.op \in ProgWriteSteps /\ pc' # pc)
          => /\ AllBefore(JuriWriteSteps)
             /\ orch # "ingest_main" => juri_map = JuriMapNow
    /\ (orch \in Orchestrators /\ pc.op \in MetaWriteSteps /\ pc' # pc)
          => /\ AllBefore(JuriWriteSteps \cup ProgWriteSteps)
             /\ program_mapping = ProgramMapNow
C25_StepsStrictlyOrdered == [][C25_OrderedStep]_vars

\* run_single_shot on a new document has written a goal of a program it
\* wrote, under a jurisdiction it wrote
C25_Witness ==
    /\ orch = "run_single_shot" /\ doc_id = NewDoc
    /\ pc = Step("flat_upsert", "bd_cuentas")
    /\ \E g \in Range(written.bd_metas), p \in Range(written.bd_programas) :
          /\ g.prog = p.id
          /\ p.juri \in IdsWhere(bd_jurisdiccion, LAMBDA r : r.doc = NewDoc)

\* the goal held provisionally, <<>> when there is none
PendingGoal(s) == IF s.parser = "metas" THEN s.pending_meta ELSE <<>>
\* the warnings a step added, the one for an empty result apart
WarningsAdded(before, after) ==
    {after.warnings[k] : k \in (Len(before.warnings) + 1)..Len(after.warnings)}
        \ {"No se encontraron metas."}
\* the step emitted the provisional goal as a row
PendingEmitted(before, after) ==
    /\ Len(after.rows) = Len(before.rows) + 1
    /\ after.rows[Len(after.rows)].Meta_Nombre = before.pending_meta[1].Meta_Nombre
    /\ after.rows[Len(after.rows)].Meta_Anual # NoneFloat
    /\ after.pending_meta = <<>>

\* C31: while the goals parser holds a provisional goal, a step either
\* keeps it, or emits it as a row (the line gave the missing numbers), or
\* drops it and records a warning; a goal still provisional when the parser
\* returns has its warning.
C31_PendingStep ==
    (PendingGoal(scan) # <<>> /\ scan' # scan)
        => \/ /\ scan'.status \in {"loop", "break"}
              /\ scan'.pending_meta = scan.pending_meta
           \/ PendingEmitted(scan, scan')
           \/ WarningsAdded(scan, scan') # {}
C31_PendingCompletedOrWarned == [][C31_PendingStep]_vars

\* the numeric columns of a line of goals: its numbers, the goal code that
\* starts a goal line apart
GoalColumns(line) ==
    LET Rest(after) == IF after # 0 THEN From(line, after) ELSE line
    IN  parse_numeric_tokens(Rest(META_ITEM_RE(line)))
\* the row has the first three columns, in their order
FirstThree(row, cols) ==
    /\ row.Meta_Anual = cols[1]
    /\ row.Meta_Parcial = cols[2]
    /\ row.Meta_Ejecutado = cols[3]

\* C32: the goal row a line of three or of four numeric columns emits has
\* the first column as annual, the second as partial and the third as
\* executed; the fourth column and the goal code that starts the line are
\* in none of them.
C32_ColumnsStep ==
    IsGoalStep
        => LET Columns(cols) ==
                   Len(cols) \in {3, 4} => FirstThree(FromEnd(scan'.rows, 1), cols)
           IN  Columns(GoalColumns(normalize_name(scan.text[scan.i])))
C32_ColumnsInOrder == [][C32_ColumnsStep]_vars

\* the row comes from the line of the closing balance
FromClosingBalance(row) == Contains(normalize_key(row.MovTes_Tipo), "saldo final")

\* C33: no treasury row the movements parser returns comes from the line
\* of the closing balance ('Saldo final'), whichever of the other canonical
\* lines the section has.
C33_ClosingBalanceNotStored ==
    (scan.parser = "movimientos" /\ scan.status = "returned")
        => \A k \in 1..Len(scan.rows) : ~FromClosingBalance(scan.rows[k])

\* the number of keywords of a set that occur in a page, letter case apart
HitCount(text, keywords) ==
    Cardinality({k \in keywords : Contains(Lower(text), k)})
\* the list holds the pages of the given numbers, in page order
ListsInOrder(list, numbers) ==
    /\ Range(list) = numbers
    /\ \A a, b \in 1..Len(list) : a < b => list[a] < list[b]
RouterReturned == helper.fn = "route_sections" /\ helper.status = "returned"

\* C34: route_sections returns, for each of the two sections, the list of
\* the pages in which at least two keywords of the section's set occur, in
\* page order, and used_fallback is true exactly when both lists are empty.
C34_RoutedByHitCount ==
    RouterReturned
        => /\ ListsInOrder(helper.juri_prog_pages,
                  {n \in 1..Len(helper.page_texts) :
                      HitCount(helper.page_texts[n], Range(JURI_PROG_KEYWORDS)) >= 2})
           /\ ListsInOrder(helper.metas_pages,
                  {n \in 1..Len(helper.page_texts) :
                      HitCount(helper.page_texts[n], Range(METAS_KEYWORDS)) >= 2})
           /\ helper.used_fallback
                  <=> (helper.juri_prog_pages = <<>> /\ helper.metas_pages = <<>>)

\* three pages were routed: one to each section alone and one to neither
C34_Witness ==
    /\ RouterReturned
    /\ Len(helper.page_texts) = 3
    /\ \E a, b, c \in 1..3 :
          /\ a \in Range(helper.juri_prog_pages) /\ a \notin Range(helper.metas_pages)
          /\ b \in Range(helper.metas_pages) /\ b \notin Range(helper.juri_prog_pages)
          /\ c \notin Range(helper.juri_prog_pages) \cup Range(helper.metas_pages)
    /\ ~helper.used_fallback

\* the elements of a sequence at the positions of a set, in their order
NthOf(S, j) == CHOOSE x \in S : Cardinality({y \in S : y < x}) = j - 1
AtPositions(seq, S) == [j \in 1..Cardinality(S) |-> seq[NthOf(S, j)]]
\* the balance-sheet row is the account row, moved
MovedFrom(row, item) ==
    row.SitPat_Nombre = item.Cuenta_Nombre /\ row.SitPat_Saldo = item.Cuenta_Importe
\* the account rows at the positions M went to the end of the balance sheet,
\* in their order, and the other rows are the accounts array, in their order
SplitsAt(before, after, M) ==
    LET Moved(n, moved) ==
            /\ Len(after.bd_situacionpatrimonial) = n + Len(moved)
            /\ SubSeq(after.bd_situacionpatrimonial, 1, n) = before.bd_situacionpatrimonial
            /\ \A j \in 1..Len(moved) :
                  MovedFrom(after.bd_situacionpatrimonial[n + j], moved[j])
    IN  /\ after.bd_cuentas
            = AtPositions(before.bd_cuentas, (1..Len(before.bd_cuentas)) \ M)
        /\ Moved(Len(before.bd_situacionpatrimonial), AtPositions(before.bd_cuentas, M))
ReclassifyReturns ==
    /\ helper.fn = "_reclassify_cuentas_to_sitpat"
    /\ helper.status = "loop"
    /\ helper'.status = "returned"

\* C38: _reclassify_cuentas_to_sitpat leaves every row of the accounts
\* array in exactly one place: the rows it does not move are the new
\* accounts array, in their order, and each moved row is one row added to
\* the balance-sheet array; no row is dropped and none is in both.
C38_ReclassifyStep ==
    ReclassifyReturns
        => \E M \in SUBSET (1..Len(helper.payload.bd_cuentas)) :
              SplitsAt(helper.payload, helper'.payload, M)
C38_ReclassifyConservesRows == [][C38_ReclassifyStep]_vars

\* of three account rows the second was moved and the other two were kept
C38_Witness ==
    /\ helper.fn = "_reclassify_cuentas_to_sitpat"
    /\ helper.status = "returned"
    /\ Len(helper.cuentas) = 3
    /\ helper.moved = 1
    /\ helper.cuentas[1] # helper.cuentas[3]
    /\ helper.payload.bd_cuentas = <<helper.cuentas[1], helper.cuentas[3]>>
    /\ MovedFrom(FromEnd(helper.payload.bd_situacionpatrimonial, 1), helper.cuentas[2])

\* C39: called with rows, an upsert helper of the section-scoped ingest
\* writes them to at most one candidate table, and when it returns it has
\* written them to one.
C39_UpsertWritesOrRaises ==
    (helper.fn = "upsert" /\ helper.rows # <<>>)
        => /\ Len(helper.wrote) <= 1
           /\ helper.status = "returned" => Len(helper.wrote) = 1

\* the stored program of a jurisdiction and a program code, where there is one
StoredProgram(table, juri, code) ==
    {i \in 1..Len(table) : table[i].juri = juri /\ table[i].code = code}
AtSynthesis == pc = Step("create_progs", "") /\ pc' # pc

\* C35: the synthesis step of run_single_shot writes no program that is
\* already stored, so every stored program keeps its name; the rows it adds
\* are programs that goals of the payload refer to, one for each pair of
\* jurisdiction and program code.
C35_SynthesisStep ==
    AtSynthesis
        => /\ \A i \in 1..Len(bd_programas) :
                 /\ bd_programas'[i].name = bd_programas[i].name
                 /\ \A k \in 1..Len(written'.bd_programas) :
                       k > Len(written.bd_programas)
                          => written'.bd_programas[k].id # bd_programas[i].id
           /\ \A i \in (Len(bd_programas) + 1)..Len(bd_programas') :
                 /\ \E m \in Range(parsed.metas) :
                       /\ Strip(m.code) = bd_programas'[i].code
                       /\ Get(juri_map, Strip(m.jcode)) = bd_programas'[i].juri
                 /\ StoredProgram(bd_programas', bd_programas'[i].juri,
                                  bd_programas'[i].code) = {i}
C35_SynthesisOnlyOfMissingPrograms == [][C35_SynthesisStep]_vars

\* the counts of the three related tables in the summary of a single-shot
\* run (`"bd_jurisdiccion": len(juri_rows)` and the like) and in the
\* metrics of run_document
SummaryCounts ==
    [bd_jurisdiccion |-> Len(juri_rows),
     bd_programas |-> Len(prog_rows),
     bd_metas |-> Len(metas_rows)]
\* the rows of the three tables stored for the run's document
PersistedJuris == IdsWhere(bd_jurisdiccion, LAMBDA r : r.doc = doc_id)
PersistedProgs == {i \in 1..Len(bd_programas) : bd_programas[i].juri \in PersistedJuris}
PersistedMetas ==
    {i \in 1..Len(bd_metas) :
        \E p \in PersistedProgs : bd_programas[p].id = bd_metas[i].prog}

\* C36: when a run on a new document has returned its summary, the counts
\* of jurisdictions, programs and goals in it are the numbers of rows the
\* run stored in those tables.
C36_CountsArePersistedRows ==
    (orch \in SingleShots /\ doc_id = NewDoc /\ Returned /\ result.ok)
        => /\ SummaryCounts.bd_jurisdiccion = Cardinality(PersistedJuris)
           /\ SummaryCounts.bd_programas = Cardinality(PersistedProgs)
           /\ SummaryCounts.bd_metas = Cardinality(PersistedMetas)

\* the four stores of data rows
DataTables == <<bd_jurisdiccion, bd_programas, bd_metas, flat>>
\* the position of the run is after the step
StepDone(step) ==
    \E i, n \in 1..Len(Program) : i < n /\ Program[i] = step /\ Program[n] = pc
\* the delete and the insert of each of the eight tables are behind the run
EightTablesWritten ==
    /\ \A t \in FlatTables : StepDone(Step("flat_delete", t)) /\ StepDone(Step("flat_insert", t))
    /\ \A op \in {"juri_delete", "juri_insert", "prog_delete", "prog_insert",
                  "metas_delete", "metas_insert"} : StepDone(Step(op, ""))
\* each flat table holds for the document the parsed rows
FlatHoldsParsed ==
    \A t \in FlatTables :
        SelectSeq(flat[t], LAMBDA r : r.doc = doc_id) = FlatRows(parsed.flat_n)
C37_WriteStep ==
    orch = "run_document"
        => /\ DataTables' # DataTables
                => /\ was_processing
                   /\ doc_id \in Docs
                   /\ doc_status[doc_id] = "Procesando"
                   /\ doc_status'[doc_id] = "Procesando"
           /\ (doc_id \in Docs /\ doc_status[doc_id] # "Procesado"
                               /\ doc_status'[doc_id] = "Procesado")
                => EightTablesWritten /\ FlatHoldsParsed

\* C37: every step of run_document that changes a data table is taken
\* while the document's status is 'Procesando', so a run that fails a
\* precondition changes none; and the step that sets 'Procesado' comes when
\* the delete and the insert of all eight tables are behind it.
C37_WritesWhileProcessing == [][C37_WriteStep]_vars
\* a run wrote rows to every table and then set 'Procesado'
C37_Witness ==
    /\ orch = "run_document" /\ Returned /\ result.ok
    /\ doc_status[doc_id] = "Procesado"
    /\ parsed.flat_n > 0 /\ Len(juri_rows) > 0 /\ Len(prog_rows) > 0 /\ Len(metas_rows) > 0
    /\ FlatHoldsParsed

\* C40: when two runs of run_document on the same document have both ended
\* with 'Procesado', each flat table holds for the document one copy of the
\* parsed rows.
C40_OneCopyPerFlatTable ==
    (Succeeded /\ other.pc = OtherDone /\ other.doc = doc_id)
        => \A t \in FlatTables :
              SelectSeq(flat[t], LAMBDA r : r.doc = doc_id) = FlatRows(parsed.flat_n)
====
